---- MODULE Spec2Model ----
(***************************************************************************)
(* A model of world-tax-rs: the threshold rule of a TaxRuleConfig          *)
(* (types.rs), the reference-data store (provider.rs) and the scenario     *)
(* classifier, rate composer and aggregator (calculation.rs).              *)
(*                                                                         *)
(* Conventions                                                             *)
(*   Option<T>      None is <<>>, Some(v) is <<v>>.                        *)
(*   Result<T, E>   Ok(v) is [ok |-> TRUE, val |-> v],                     *)
(*                  Err(e) is [ok |-> FALSE, err |-> e].                   *)
(*   f64 / Decimal  an exact rational [num, den] in lowest terms, den > 0. *)
(*                  Binary rounding error of f64 is not modelled; the      *)
(*                  final rounding of calculate_tax is.                    *)
(*   u32            a natural number.  Every amount of the model is far    *)
(*                  below 2^32 - 1, so the saturating upper end of         *)
(*                  `amount as u32` is never taken.                        *)
(***************************************************************************)
EXTENDS Integers, Sequences, FiniteSets, TLC

VARIABLES
    db,          \* the TaxDatabase: countries and trade_agreements
    scenario,    \* the TaxScenario the caller built
    amount,      \* the amount argument of the engine calls (f64 / Decimal)
    op,          \* the last engine operation called, "" before any call
    result,      \* what that call returned
    total_tax,   \* the aggregation loop's accumulator when it ended
    rule,        \* a TaxRuleConfig under evaluation
    rule_args,   \* [amount: u32, is_digital..., has_resale..., ignore_threshold]
    rule_op,     \* the last TaxRuleConfig method called, "" before any call
    rule_ret     \* what that method returned

vars == <<db, scenario, amount, op, result, total_tax,
          rule, rule_args, rule_op, rule_ret>>

-----------------------------------------------------------------------------
(* Option and Result                                                       *)

None == <<>>

Some(v) == <<v>>

is_some(o) == o # <<>>

unwrap(o) == o[1]

Ok(v) == [ok |-> TRUE, val |-> v]

Err(e) == [ok |-> FALSE, err |-> e]

-----------------------------------------------------------------------------
(* Exact rationals for f64 and Decimal values                              *)

Abs(n) == IF n < 0 THEN -n ELSE n

RECURSIVE GCD(_, _)
GCD(a, b) == IF b = 0 THEN a ELSE GCD(b, a % b)

Rat(n, d) ==
    LET s == IF d < 0 THEN -1 ELSE 1
        g == GCD(Abs(n), Abs(d))
    IN  [num |-> (s * n) \div g, den |-> (s * d) \div g]

RatInt(n) == [num |-> n, den |-> 1]

RatAdd(a, b) == Rat(a.num * b.den + b.num * a.den, a.den * b.den)

RatMul(a, b) == Rat(a.num * b.num, a.den * b.den)

RatLt(a, b) == a.num * b.den < b.num * a.den

\* `x as u32` for an f64 x: the fraction is dropped, a negative value gives 0.
AsU32(a) == IF a.num < 0 THEN 0 ELSE a.num \div a.den

\* `x as f64` for a u32 x.
AsF64(n) == RatInt(n)

\* f64::round taken as rounding ties toward positive infinity.
RoundHalfAway_ties_up(a) ==
    IF 2 * a.num + a.den >= 0
    THEN (2 * a.num + a.den) \div (2 * a.den)
    ELSE -((-(2 * a.num + a.den) + 2 * a.den - 1) \div (2 * a.den))

\* f64::round: to the nearest integer, ties away from zero.
RoundHalfAway(a) ==
    IF a.num >= 0
    THEN (2 * a.num + a.den) \div (2 * a.den)
    ELSE -((2 * (-a.num) + a.den) \div (2 * a.den))

-----------------------------------------------------------------------------
(* types.rs: the closed variants                                           *)

TaxCalculationType ==
    {"Origin", "Destination", "ReverseCharge", "ZeroRated", "Exempt",
     "None", "ThresholdBased"}

TransactionType == {"B2B", "B2C"}

VatRate ==
    {"Standard", "Reduced", "ReducedAlt", "SuperReduced", "Zero", "Exempt",
     "ReverseCharge"}

TaxSystemType == {"Vat", "Gst", "Pst", "Hst", "Qst", "None"}

-----------------------------------------------------------------------------
(* types.rs: TaxRuleConfig                                                 *)

\* by_threshold with the comparison off by one: an amount equal to the
\* threshold counts as below it.
by_threshold_inclusive(cfg, amt, ignore_threshold) ==
    LET has_threshold == /\ is_some(cfg.below_threshold)
                         /\ is_some(cfg.above_threshold)
                         /\ is_some(cfg.threshold)
    IN  IF has_threshold
        THEN IF amt <= unwrap(cfg.threshold) /\ ~ignore_threshold
             THEN unwrap(cfg.below_threshold)
             ELSE unwrap(cfg.above_threshold)
        ELSE cfg.type

\* by_threshold with ignore_threshold skipping the triple altogether.
by_threshold_ignore_skips(cfg, amt, ignore_threshold) ==
    LET has_threshold == /\ is_some(cfg.below_threshold)
                         /\ is_some(cfg.above_threshold)
                         /\ is_some(cfg.threshold)
    IN  IF has_threshold /\ ~ignore_threshold
        THEN IF amt < unwrap(cfg.threshold)
             THEN unwrap(cfg.below_threshold)
             ELSE unwrap(cfg.above_threshold)
        ELSE cfg.type

by_threshold(cfg, amt, ignore_threshold) ==
    LET has_threshold == /\ is_some(cfg.below_threshold)
                         /\ is_some(cfg.above_threshold)
                         /\ is_some(cfg.threshold)
    IN  IF has_threshold
        THEN IF amt < unwrap(cfg.threshold) /\ ~ignore_threshold
             THEN unwrap(cfg.below_threshold)
             ELSE unwrap(cfg.above_threshold)
        ELSE cfg.type

by_digital_product_threshold(cfg, amt, ignore_threshold) ==
    LET has_threshold == /\ is_some(cfg.below_threshold_digital_products)
                         /\ is_some(cfg.above_threshold_digital_products)
                         /\ is_some(cfg.threshold_digital_products)
    IN  IF has_threshold
        THEN IF amt < unwrap(cfg.threshold_digital_products) /\ ~ignore_threshold
             THEN unwrap(cfg.below_threshold_digital_products)
             ELSE unwrap(cfg.above_threshold_digital_products)
        ELSE cfg.type

by_threshold_or_digital_product_threshold(cfg, amt, is_digital, ignore_threshold) ==
    IF is_digital
    THEN by_digital_product_threshold(cfg, amt, ignore_threshold)
    ELSE by_threshold(cfg, amt, ignore_threshold)

is_reseller(cfg, has_resale_certificate) ==
    IF is_some(cfg.requires_resale_certificate)
    THEN unwrap(cfg.requires_resale_certificate) /\ has_resale_certificate
    ELSE FALSE

-----------------------------------------------------------------------------
(* types.rs: TaxType, TaxRate, TradeAgreement                              *)

\* TaxType: VAT carries its VatRate, the other kinds carry nothing.
VAT(v) == <<"VAT", v>>

GST == <<"GST">>

HST == <<"HST">>

PST == <<"PST">>

QST == <<"QST">>

StateSalesTax == <<"StateSalesTax">>

TaxRate(r, t, c) == [rate |-> r, tax_type |-> t, compound |-> c]

is_federal(agreement) == agreement.type = "FederalState"

is_international(agreement) == agreement.type = "CustomsUnion"

-----------------------------------------------------------------------------
(* errors.rs: DatabaseError                                                *)

TradeAgreementNotFound(id) == [kind |-> "TradeAgreementNotFound", arg |-> id]

CountryNotFound(code) == [kind |-> "CountryNotFound", arg |-> code]

VatRateNotFound(v) == [kind |-> "VatRateNotFound", arg |-> v]

\* errors.rs: ProcessingError::DatabaseError, the variant From<DatabaseError>
\* wraps a DatabaseError in.
ProcessingError_DatabaseError(err) == [kind |-> "DatabaseError", arg |-> err]

\* `?` and map_err(ProcessingError::from) on a Result<_, DatabaseError>.
map_err_from(r) ==
    IF r.ok THEN r ELSE Err(ProcessingError_DatabaseError(r.err))

-----------------------------------------------------------------------------
(* provider.rs: TaxDatabase                                                *)

\* The lookup by country code without the test of the agreement's kind.
get_federal_rule_any_kind(d, country) ==
    IF country \in DOMAIN d.trade_agreements
    THEN Some(d.trade_agreements[country])
    ELSE None

get_federal_rule(d, country) ==
    IF country \in DOMAIN d.trade_agreements
    THEN IF is_federal(d.trade_agreements[country])
         THEN Some(d.trade_agreements[country])
         ELSE None
    ELSE None

\* The scan by members without the test of the agreement's kind.
get_international_rule_any_kind(d, source, dest) ==
    LET matching == {id \in DOMAIN d.trade_agreements :
                       /\ source \in d.trade_agreements[id].members
                       /\ dest \in d.trade_agreements[id].members}
    IN  IF matching = {}
        THEN {None}
        ELSE {Some(d.trade_agreements[id]) : id \in matching}

\* The loop returns the first match of HashMap::values(), whose order is not
\* specified: every matching agreement is a possible return value.
get_international_rule(d, source, dest) ==
    LET matching == {id \in DOMAIN d.trade_agreements :
                       /\ source \in d.trade_agreements[id].members
                       /\ dest \in d.trade_agreements[id].members
                       /\ is_international(d.trade_agreements[id])}
    IN  IF matching = {}
        THEN {None}
        ELSE {Some(d.trade_agreements[id]) : id \in matching}

get_country(d, code) ==
    IF code \in DOMAIN d.countries
    THEN Ok(d.countries[code])
    ELSE Err(CountryNotFound(code))

get_rule(d, rule_id) ==
    IF rule_id \in DOMAIN d.trade_agreements
    THEN Ok(d.trade_agreements[rule_id])
    ELSE Err(TradeAgreementNotFound(rule_id))

\* The state of a region argument, if the country has a table holding it.
find_state(country_data, region) ==
    IF /\ is_some(region)
       /\ is_some(country_data.states)
       /\ unwrap(region) \in DOMAIN unwrap(country_data.states)
    THEN Some(unwrap(country_data.states)[unwrap(region)])
    ELSE None

\* The match on state.tax_type with the PST pushed before the GST.
state_rates_pst_before_gst(country_data, state) ==
    CASE state.tax_type = "Hst" ->
           <<TaxRate(state.standard_rate, HST, FALSE)>>
      [] state.tax_type = "Qst" ->
           <<TaxRate(country_data.standard_rate, GST, FALSE),
             TaxRate(state.standard_rate, QST, TRUE)>>
      [] state.tax_type = "Pst" ->
           <<TaxRate(state.standard_rate, PST, TRUE),
             TaxRate(country_data.standard_rate, GST, FALSE)>>
      [] OTHER ->
           <<TaxRate(country_data.standard_rate, GST, FALSE)>>

\* The match on state.tax_type with HST added to GST instead of replacing it.
state_rates_hst_after_gst(country_data, state) ==
    CASE state.tax_type = "Hst" ->
           <<TaxRate(country_data.standard_rate, GST, FALSE),
             TaxRate(state.standard_rate, HST, FALSE)>>
      [] state.tax_type = "Qst" ->
           <<TaxRate(country_data.standard_rate, GST, FALSE),
             TaxRate(state.standard_rate, QST, TRUE)>>
      [] state.tax_type = "Pst" ->
           <<TaxRate(country_data.standard_rate, GST, FALSE),
             TaxRate(state.standard_rate, PST, TRUE)>>
      [] OTHER ->
           <<TaxRate(country_data.standard_rate, GST, FALSE)>>

\* The rates a found state pushes: the match on state.tax_type.
state_rates(country_data, state) ==
    CASE state.tax_type = "Hst" ->
           <<TaxRate(state.standard_rate, HST, FALSE)>>
      [] state.tax_type = "Qst" ->
           <<TaxRate(country_data.standard_rate, GST, FALSE),
             TaxRate(state.standard_rate, QST, TRUE)>>
      [] state.tax_type = "Pst" ->
           <<TaxRate(country_data.standard_rate, GST, FALSE),
             TaxRate(state.standard_rate, PST, TRUE)>>
      [] OTHER ->
           <<TaxRate(country_data.standard_rate, GST, FALSE)>>

\* handle_vat_rates with an absent rate replaced by the standard rate.
handle_vat_rates_standard_fallback(country_data, vat_rate, rates) ==
    LET rate_type == IF is_some(vat_rate) THEN unwrap(vat_rate) ELSE "Standard"
        rate == CASE rate_type = "Standard" -> Some(country_data.standard_rate)
                  [] rate_type = "Reduced" -> country_data.reduced_rate
                  [] rate_type = "ReducedAlt" -> country_data.reduced_rate_alt
                  [] rate_type = "SuperReduced" -> country_data.super_reduced_rate
                  [] OTHER -> Some(RatInt(0))
    IN  Append(rates, TaxRate(IF is_some(rate) THEN unwrap(rate)
                              ELSE country_data.standard_rate,
                              VAT(rate_type), FALSE))

handle_vat_rates(country_data, vat_rate, rates) ==
    LET rate_type == IF is_some(vat_rate) THEN unwrap(vat_rate) ELSE "Standard"
        rate == CASE rate_type = "Standard" -> Some(country_data.standard_rate)
                  [] rate_type = "Reduced" -> country_data.reduced_rate
                  [] rate_type = "ReducedAlt" -> country_data.reduced_rate_alt
                  [] rate_type = "SuperReduced" -> country_data.super_reduced_rate
                  [] OTHER -> Some(RatInt(0))
    IN  IF is_some(rate)
        THEN Append(rates, TaxRate(unwrap(rate), VAT(rate_type), FALSE))
        ELSE rates

handle_gst_rates(country_data, region, rates) ==
    LET state == find_state(country_data, region)
    IN  IF is_some(state)
        THEN rates \o state_rates(country_data, unwrap(state))
        ELSE Append(rates, TaxRate(country_data.standard_rate, GST, FALSE))

\* The Gst arm of get_rate, written out in get_rate itself: a region that is
\* given but has no state pushes nothing.
gst_arm_rates(country_data, region) ==
    IF is_some(region)
    THEN LET state == find_state(country_data, region)
         IN  IF is_some(state)
             THEN state_rates(country_data, unwrap(state))
             ELSE <<>>
    ELSE <<TaxRate(country_data.standard_rate, GST, FALSE)>>

\* The US arm without the test that the rate is above zero.
us_rates_zero_included(country_data, region) ==
    LET state == find_state(country_data, region)
    IN  IF is_some(state)
        THEN <<TaxRate(unwrap(state).standard_rate, StateSalesTax, FALSE)>>
        ELSE <<>>

\* The US arm of get_rate.
us_rates(country_data, region) ==
    LET state == find_state(country_data, region)
    IN  IF is_some(state) /\ RatLt(RatInt(0), unwrap(state).standard_rate)
        THEN <<TaxRate(unwrap(state).standard_rate, StateSalesTax, FALSE)>>
        ELSE <<>>

get_rate(d, country, region, vat_rate) ==
    LET found == get_country(d, country)
    IN  IF ~found.ok THEN found
        ELSE
        LET country_data == found.val
            rates ==
              CASE country_data.tax_type = "Gst" ->
                     gst_arm_rates(country_data, region)
                [] country_data.tax_type = "Vat" ->
                     handle_vat_rates(country_data, vat_rate, <<>>)
                [] country_data.tax_type \in {"Pst", "Hst", "Qst"} ->
                     handle_gst_rates(country_data, region, <<>>)
                [] OTHER -> <<>>
        IN  IF country = "US"
            THEN Ok(us_rates(country_data, region))
            ELSE IF rates = <<>> /\ country_data.tax_type = "Vat"
                 THEN Err(VatRateNotFound(
                        IF is_some(vat_rate) THEN unwrap(vat_rate) ELSE "Standard"))
                 ELSE Ok(rates)

-----------------------------------------------------------------------------
(* types.rs: TradeAgreementOverride                                        *)

UseAgreement(id) == [tag |-> "UseAgreement", id |-> id]

NoAgreement == [tag |-> "NoAgreement", id |-> ""]

-----------------------------------------------------------------------------
(* calculation.rs: TaxScenario                                             *)

is_same_country(s) == s.source_region.country = s.destination_region.country

is_same_state(s) == s.source_region.region = s.destination_region.region

\* The provinces get_calculation_type_from_agreement names.
HstProvinces == {"CA-NS", "CA-NB", "CA-NL", "CA-ON", "CA-PE"}

\* `amount < threshold.unwrap_or(u32::MAX) as f64`: an absent threshold
\* compares against 2^32 - 1, which every amount of the model is below.
below_b2c_threshold(amt, threshold) ==
    IF is_some(threshold)
    THEN RatLt(amt, AsF64(unwrap(threshold)))
    ELSE TRUE

\* The customs-union B2B arm choosing the triple by the product flag.
international_b2b_by_product_flag(s, agreement, amt) ==
    LET r == agreement.tax_rules.internal_b2b
    IN  IF is_some(r)
        THEN Ok(by_threshold_or_digital_product_threshold(
                  unwrap(r), AsU32(amt),
                  s.is_digital_product_or_service, s.ignore_threshold))
        ELSE Ok("Destination")

\* The customs-union arm for B2B.
international_b2b(s, agreement, amt) ==
    LET r == agreement.tax_rules.internal_b2b
    IN  IF is_some(r)
        THEN Ok(by_threshold(unwrap(r), AsU32(amt), s.ignore_threshold))
        ELSE Ok("Destination")

\* The customs-union arm for B2C.
international_b2c(s, agreement, amt) ==
    LET r == agreement.tax_rules.internal_b2c
    IN  IF is_some(r)
        THEN Ok(by_threshold_or_digital_product_threshold(
                  unwrap(r), AsU32(amt),
                  s.is_digital_product_or_service, s.ignore_threshold))
        ELSE Ok("Destination")

\* The federal arm's early return for the HST provinces and Quebec, with
\* Prince Edward Island left out of the list.
is_hst_or_quebec_destination_short(s) ==
    /\ s.destination_region.country = "CA"
    /\ is_some(s.destination_region.region)
    /\ \/ unwrap(s.destination_region.region) \in HstProvinces \ {"CA-PE"}
       \/ unwrap(s.destination_region.region) = "CA-QC"

\* The federal arm's early return for the HST provinces and Quebec.
is_hst_or_quebec_destination(s) ==
    /\ s.destination_region.country = "CA"
    /\ is_some(s.destination_region.region)
    /\ \/ unwrap(s.destination_region.region) \in HstProvinces
       \/ unwrap(s.destination_region.region) = "CA-QC"

\* The federal B2B arm without the resale-certificate test.
federal_b2b_no_reseller(s, agreement, amt) ==
    LET r == agreement.tax_rules.internal_b2b
    IN  IF is_some(r)
        THEN Ok(by_threshold(unwrap(r), AsU32(amt), s.ignore_threshold))
        ELSE Ok("Destination")

\* The federal arm for B2B.
federal_b2b(s, agreement, amt) ==
    LET r == agreement.tax_rules.internal_b2b
    IN  IF is_some(r)
        THEN IF is_reseller(unwrap(r), s.has_resale_certificate)
             THEN Ok("ZeroRated")
             ELSE Ok(by_threshold(unwrap(r), AsU32(amt), s.ignore_threshold))
        ELSE Ok("Destination")

\* The federal B2C arm with the early return taken whatever ignore_threshold is.
federal_b2c_early_return_always(s, agreement, amt) ==
    LET r == agreement.tax_rules.internal_b2c
    IN  IF is_some(r)
        THEN IF below_b2c_threshold(amt, unwrap(r).threshold)
             THEN Ok("ZeroRated")
             ELSE Ok(by_threshold(unwrap(r), AsU32(amt), s.ignore_threshold))
        ELSE Ok("Destination")

\* The federal B2C arm without the early return.
federal_b2c_no_early_return(s, agreement, amt) ==
    LET r == agreement.tax_rules.internal_b2c
    IN  IF is_some(r)
        THEN Ok(by_threshold(unwrap(r), AsU32(amt), s.ignore_threshold))
        ELSE Ok("Destination")

\* The federal arm for B2C.
federal_b2c(s, agreement, amt) ==
    LET r == agreement.tax_rules.internal_b2c
    IN  IF is_some(r)
        THEN IF /\ ~s.ignore_threshold
                /\ below_b2c_threshold(amt, unwrap(r).threshold)
             THEN Ok("ZeroRated")
             ELSE Ok(by_threshold(unwrap(r), AsU32(amt), s.ignore_threshold))
        ELSE Ok("Destination")

get_calculation_type_from_agreement(s, agreement, amt) ==
    IF is_international(agreement)
    THEN IF s.transaction_type = "B2B"
         THEN international_b2b(s, agreement, amt)
         ELSE international_b2c(s, agreement, amt)
    ELSE IF is_federal(agreement)
    THEN IF is_hst_or_quebec_destination(s)
         THEN Ok("Destination")
         ELSE IF s.transaction_type = "B2B"
              THEN federal_b2b(s, agreement, amt)
              ELSE federal_b2c(s, agreement, amt)
    ELSE Ok("Destination")

\* Every Result<Option<TradeAgreement>> determine_rule can return (more than
\* one only through get_international_rule).
\* The resolver with the NoAgreement override falling through to the lookup.
determine_rule_lookup_on_no_agreement(s, d) ==
    IF /\ is_some(s.trade_agreement_override)
       /\ unwrap(s.trade_agreement_override).tag = "UseAgreement"
    THEN LET r == get_rule(d, unwrap(s.trade_agreement_override).id)
         IN  IF r.ok THEN {Ok(Some(r.val))} ELSE {r}
    ELSE IF is_same_country(s)
         THEN {Ok(get_federal_rule(d, s.source_region.country))}
         ELSE {Ok(a) : a \in get_international_rule(d, s.source_region.country,
                                                      s.destination_region.country)}

\* The resolver with an unknown UseAgreement id read as no agreement.
determine_rule_unknown_id_is_none(s, d) ==
    IF is_some(s.trade_agreement_override)
    THEN LET overwrite == unwrap(s.trade_agreement_override)
         IN  IF overwrite.tag = "UseAgreement"
             THEN LET r == get_rule(d, overwrite.id)
                  IN  IF r.ok THEN {Ok(Some(r.val))} ELSE {Ok(None)}
             ELSE {Ok(None)}
    ELSE IF is_same_country(s)
         THEN {Ok(get_federal_rule(d, s.source_region.country))}
         ELSE {Ok(a) : a \in get_international_rule(d, s.source_region.country,
                                                      s.destination_region.country)}

determine_rule(s, d) ==
    IF is_some(s.trade_agreement_override)
    THEN LET overwrite == unwrap(s.trade_agreement_override)
         IN  IF overwrite.tag = "UseAgreement"
             THEN LET r == get_rule(d, overwrite.id)
                  IN  IF r.ok THEN {Ok(Some(r.val))} ELSE {r}
             ELSE {Ok(None)}
    ELSE IF is_same_country(s)
         THEN {Ok(get_federal_rule(d, s.source_region.country))}
         ELSE {Ok(a) : a \in get_international_rule(d, s.source_region.country,
                                                      s.destination_region.country)}

\* determine_calculation_type after `self.determine_rule(db)` returned resolved.
calculation_type_with(s, resolved, amt) ==
    IF ~resolved.ok THEN map_err_from(resolved)
    ELSE IF ~is_some(resolved.val)
         THEN IF is_same_country(s)
              THEN Ok("Origin")
              ELSE Ok("ZeroRated")
         ELSE get_calculation_type_from_agreement(s, unwrap(resolved.val), amt)

determine_calculation_type(s, d, amt) ==
    {calculation_type_with(s, resolved, amt) : resolved \in determine_rule(s, d)}

\* The regional lookup with every treatment but Origin looked up across
\* differing US or Canadian subdivisions.
get_regional_rates_non_origin_lookup(s, calculation_type, d) ==
    IF calculation_type = "ZeroRated" THEN Ok(<<>>)
    ELSE
    LET region == IF calculation_type = "Origin"
                  THEN s.source_region
                  ELSE s.destination_region
    IN  IF region.country \in {"US", "CA"} /\ ~is_same_state(s)
        THEN IF calculation_type # "Origin"
             THEN map_err_from(get_rate(d, region.country, region.region,
                                   s.vat_rate))
             ELSE Ok(<<>>)
        ELSE map_err_from(get_rate(d, region.country, region.region,
                                   s.vat_rate))

\* The regional lookup always made for the destination region.
get_regional_rates_destination_only(s, calculation_type, d) ==
    IF calculation_type = "ZeroRated" THEN Ok(<<>>)
    ELSE
    LET region == s.destination_region
    IN  IF region.country \in {"US", "CA"} /\ ~is_same_state(s)
        THEN IF calculation_type = "Destination"
             THEN map_err_from(get_rate(d, region.country, region.region,
                                   s.vat_rate))
             ELSE Ok(<<>>)
        ELSE map_err_from(get_rate(d, region.country, region.region,
                                   s.vat_rate))

get_regional_rates(s, calculation_type, d) ==
    IF calculation_type = "ZeroRated" THEN Ok(<<>>)
    ELSE
    LET region == IF calculation_type = "Origin"
                  THEN s.source_region
                  ELSE s.destination_region
    IN  IF region.country \in {"US", "CA"} /\ ~is_same_state(s)
        THEN IF calculation_type = "Destination"
             THEN map_err_from(get_rate(d, region.country, region.region,
                                   s.vat_rate))
             ELSE Ok(<<>>)
        ELSE map_err_from(get_rate(d, region.country, region.region,
                                   s.vat_rate))

\* The match of get_rates with Exempt sent to the regional lookup for VAT
\* countries too.
rates_by_treatment_exempt_regional(s, calculation_type, country, d) ==
    CASE calculation_type = "ReverseCharge" ->
           IF country.tax_type = "Vat"
           THEN Ok(<<TaxRate(RatInt(0), VAT("ReverseCharge"), FALSE)>>)
           ELSE get_regional_rates(s, calculation_type, d)
      [] calculation_type = "ZeroRated" ->
           IF country.tax_type = "Vat"
           THEN Ok(<<TaxRate(RatInt(0), VAT("Zero"), FALSE)>>)
           ELSE Ok(<<>>)
      [] OTHER -> get_regional_rates(s, calculation_type, d)

\* The match of get_rates with no components for ReverseCharge and Exempt
\* outside VAT countries.
rates_by_treatment_non_vat_empty(s, calculation_type, country, d) ==
    CASE calculation_type \in {"ReverseCharge", "ZeroRated", "Exempt"} ->
           IF country.tax_type = "Vat"
           THEN Ok(<<TaxRate(RatInt(0),
                             VAT(IF calculation_type = "ZeroRated"
                                 THEN "Zero" ELSE calculation_type),
                             FALSE)>>)
           ELSE Ok(<<>>)
      [] OTHER -> get_regional_rates(s, calculation_type, d)

\* The match on the treatment in get_rates, country being the destination's.
rates_by_treatment(s, calculation_type, country, d) ==
    CASE calculation_type = "ReverseCharge" ->
           IF country.tax_type = "Vat"
           THEN Ok(<<TaxRate(RatInt(0), VAT("ReverseCharge"), FALSE)>>)
           ELSE get_regional_rates(s, calculation_type, d)
      [] calculation_type = "ZeroRated" ->
           IF country.tax_type = "Vat"
           THEN Ok(<<TaxRate(RatInt(0), VAT("Zero"), FALSE)>>)
           ELSE Ok(<<>>)
      [] calculation_type = "Exempt" ->
           IF country.tax_type = "Vat"
           THEN Ok(<<TaxRate(RatInt(0), VAT("Exempt"), FALSE)>>)
           ELSE get_regional_rates(s, calculation_type, d)
      [] OTHER -> get_regional_rates(s, calculation_type, d)

\* get_rates looking the destination country up only where the match reads
\* it: not for Origin, whose components are the source region's.
rates_with_origin_skips_country(s, classified, d) ==
    IF ~classified.ok THEN classified
    ELSE IF /\ s.source_region.country = "US"
            /\ s.transaction_type = "B2B"
            /\ s.has_resale_certificate
    THEN Ok(<<>>)
    ELSE IF classified.val = "Origin"
    THEN get_regional_rates(s, classified.val, d)
    ELSE
    LET found == get_country(d, s.destination_region.country)
    IN  IF ~found.ok THEN map_err_from(found)
        ELSE rates_by_treatment(s, classified.val, found.val, d)

\* get_rates without the pre-check for US B2B sales with a resale certificate.
rates_with_no_resale_check(s, classified, d) ==
    IF ~classified.ok THEN classified
    ELSE
    LET found == get_country(d, s.destination_region.country)
    IN  IF ~found.ok THEN map_err_from(found)
        ELSE rates_by_treatment(s, classified.val, found.val, d)

\* get_rates after `self.determine_calculation_type(db, amount)` returned classified.
rates_with(s, classified, d) ==
    IF ~classified.ok THEN classified
    ELSE IF /\ s.source_region.country = "US"
            /\ s.transaction_type = "B2B"
            /\ s.has_resale_certificate
    THEN Ok(<<>>)
    ELSE
    LET found == get_country(d, s.destination_region.country)
    IN  IF ~found.ok THEN map_err_from(found)
        ELSE rates_by_treatment(s, classified.val, found.val, d)

get_rates(s, amt, d) ==
    {rates_with(s, classified, d) : classified \in determine_calculation_type(s, d, amt)}

\* The loop with a compounding component taxed on the base amount alone.
RECURSIVE tax_loop_flat(_, _, _, _)
tax_loop_flat(rates, i, base_amount, total_so_far) ==
    IF i > Len(rates) THEN total_so_far
    ELSE tax_loop_flat(rates, i + 1, base_amount,
                       RatAdd(total_so_far, RatMul(base_amount, rates[i].rate)))

\* The loop with `total_tax = tax_amount` for `total_tax += tax_amount`.
RECURSIVE tax_loop_assign(_, _, _, _)
tax_loop_assign(rates, i, base_amount, total_so_far) ==
    IF i > Len(rates) THEN total_so_far
    ELSE LET tax_amount ==
               IF rates[i].compound
               THEN RatMul(RatAdd(base_amount, total_so_far), rates[i].rate)
               ELSE RatMul(base_amount, rates[i].rate)
         IN  tax_loop_assign(rates, i + 1, base_amount, tax_amount)

\* The `for rate in rates` loop of calculate_tax and calculate_tax_decimal,
\* from element i on, with the accumulator total_so_far.
RECURSIVE tax_loop(_, _, _, _)
tax_loop(rates, i, base_amount, total_so_far) ==
    IF i > Len(rates) THEN total_so_far
    ELSE LET tax_amount ==
               IF rates[i].compound
               THEN RatMul(RatAdd(base_amount, total_so_far), rates[i].rate)
               ELSE RatMul(base_amount, rates[i].rate)
         IN  tax_loop(rates, i + 1, base_amount, RatAdd(total_so_far, tax_amount))

\* `(total_tax * 100.0).round() / 100.0`
round_to_cents(total) == Rat(RoundHalfAway(RatMul(total, RatInt(100))), 100)

\* calculate_tax after get_rates returned rates: the value returned and the
\* accumulator (None when the loop did not run).
calculate_tax_with(rates, amt) ==
    IF ~rates.ok
    THEN [ret |-> rates, total |-> None]
    ELSE LET total == tax_loop(rates.val, 1, amt, RatInt(0))
         IN  [ret |-> Ok(round_to_cents(total)), total |-> Some(total)]

calculate_tax(s, amt, d) ==
    {calculate_tax_with(rates, amt) : rates \in get_rates(s, amt, d)}

\* calculate_tax_decimal after get_rates returned rates.  Every Decimal of
\* the model has an f64 value, so InvalidAmount is not returned.
calculate_tax_decimal_with(rates, amt) ==
    IF ~rates.ok
    THEN [ret |-> rates, total |-> None]
    ELSE LET total == tax_loop(rates.val, 1, amt, RatInt(0))
         IN  [ret |-> Ok(total), total |-> Some(total)]

calculate_tax_decimal(s, amt, d) ==
    {calculate_tax_decimal_with(rates, amt) : rates \in get_rates(s, amt, d)}

-----------------------------------------------------------------------------
(* Constructors for the values a caller or the JSON loader builds          *)

Region(country, region) == [country |-> country, region |-> region]

\* TaxScenario::new sets the last five fields to None / false; the fields are
\* public and the tests assign them.
Scenario(src, dst, tt, ovr, digital, resale, ignore, vat) ==
    [source_region |-> src, destination_region |-> dst,
     transaction_type |-> tt, trade_agreement_override |-> ovr,
     is_digital_product_or_service |-> digital,
     has_resale_certificate |-> resale,
     ignore_threshold |-> ignore, vat_rate |-> vat]

RuleConfig(type, below, above, threshold, belowD, aboveD, thresholdD, resale) ==
    [type |-> type, below_threshold |-> below, above_threshold |-> above,
     threshold |-> threshold,
     below_threshold_digital_products |-> belowD,
     above_threshold_digital_products |-> aboveD,
     threshold_digital_products |-> thresholdD,
     requires_resale_certificate |-> resale]

\* A config with nothing but its default treatment.
PlainRule(type) == RuleConfig(type, None, None, None, None, None, None, None)

TaxRules(b2b, b2c) ==
    [internal_b2b |-> b2b, internal_b2c |-> b2c,
     external_export |-> PlainRule("ZeroRated")]

\* name, default_applicable and applies_to are read by no operation.
TradeAgreement(type, members, rules) ==
    [type |-> type, members |-> members, tax_rules |-> rules]

State(rate, tax_type) == [standard_rate |-> rate, tax_type |-> tax_type]

\* currency, parking_rate, vat_name and vat_abbr are read by no operation.
Country(tax_type, standard, reduced, reduced_alt, super_reduced, states) ==
    [tax_type |-> tax_type, standard_rate |-> standard,
     reduced_rate |-> reduced, reduced_rate_alt |-> reduced_alt,
     super_reduced_rate |-> super_reduced, states |-> states]

TaxDatabase(countries, agreements) ==
    [countries |-> countries, trade_agreements |-> agreements]

-----------------------------------------------------------------------------
(* Reference data: the rates the tests of calculation_test.rs pin down     *)

Pct(n) == Rat(n, 100)

RefCountries ==
    ("US" :> Country("None", RatInt(0), None, None, None,
                Some(("US-CA" :> State(Rat(825, 10000), "None"))
                  @@ ("US-WA" :> State(Rat(65, 1000), "None"))
                  @@ ("US-OR" :> State(RatInt(0), "None")))))
 @@ ("CA" :> Country("Gst", Pct(5), None, None, None,
                Some(("CA-BC" :> State(Pct(7), "Pst"))
                  @@ ("CA-QC" :> State(Rat(9975, 100000), "Qst"))
                  @@ ("CA-NS" :> State(Pct(10), "Hst"))
                  @@ ("CA-NB" :> State(Pct(10), "Hst"))
                  @@ ("CA-NL" :> State(Pct(10), "Hst"))
                  @@ ("CA-ON" :> State(Pct(8), "Hst"))
                  @@ ("CA-PE" :> State(Pct(10), "Hst"))
                  @@ ("CA-AB" :> State(RatInt(0), "Gst")))))
 @@ ("DE" :> Country("Vat", Pct(19), Some(Pct(7)), None, None, None))
 @@ ("FR" :> Country("Vat", Pct(20), Some(Pct(10)), Some(Rat(55, 1000)),
                     Some(Rat(21, 1000)), None))
 @@ ("TH" :> Country("Vat", Pct(7), None, None, None, None))
 @@ ("AU" :> Country("Gst", Pct(10), None, None, None, None))

\* The thresholds of the reference agreements: 100 is below them and 100000
\* is not (test_*_below_threshold, test_*_above_threshold).
RefAgreements ==
    ("US" :> TradeAgreement("FederalState", {"US"},
               TaxRules(Some(RuleConfig("Destination", None, None, None,
                                        None, None, None, Some(TRUE))),
                        Some(RuleConfig("ThresholdBased", Some("Origin"),
                                        Some("Destination"), Some(100000),
                                        None, None, None, None)))))
 @@ ("CA" :> TradeAgreement("FederalState", {"CA"},
               TaxRules(Some(PlainRule("Destination")),
                        Some(RuleConfig("ThresholdBased", Some("ZeroRated"),
                                        Some("Destination"), Some(30000),
                                        None, None, None, None)))))
 @@ ("EU" :> TradeAgreement("CustomsUnion", {"DE", "FR"},
               TaxRules(Some(PlainRule("ReverseCharge")),
                        Some(RuleConfig("ThresholdBased", Some("Origin"),
                                        Some("Destination"), Some(10000),
                                        Some("Origin"), Some("Destination"),
                                        Some(10000), None)))))

RefDatabase == TaxDatabase(RefCountries, RefAgreements)

-----------------------------------------------------------------------------
(* The engine's public operations, called on the scenario any number of    *)
(* times in any order; each call leaves what it returned in `result`.      *)

EngineInputs == <<db, scenario, amount>>

RuleState == <<rule, rule_args, rule_op, rule_ret>>

DetermineCalculationType ==
    /\ \E r \in determine_calculation_type(scenario, db, amount) :
         /\ op' = "determine_calculation_type"
         /\ result' = r
         /\ total_tax' = None
    /\ UNCHANGED <<EngineInputs, RuleState>>

GetRates ==
    /\ \E r \in get_rates(scenario, amount, db) :
         /\ op' = "get_rates"
         /\ result' = r
         /\ total_tax' = None
    /\ UNCHANGED <<EngineInputs, RuleState>>

CalculateTax ==
    /\ \E r \in calculate_tax(scenario, amount, db) :
         /\ op' = "calculate_tax"
         /\ result' = r.ret
         /\ total_tax' = r.total
    /\ UNCHANGED <<EngineInputs, RuleState>>

CalculateTaxDecimal ==
    /\ \E r \in calculate_tax_decimal(scenario, amount, db) :
         /\ op' = "calculate_tax_decimal"
         /\ result' = r.ret
         /\ total_tax' = r.total
    /\ UNCHANGED <<EngineInputs, RuleState>>

\* The resolver on its own: the agreement the classifier goes on with.
DetermineRule ==
    /\ \E r \in determine_rule(scenario, db) :
         /\ op' = "determine_rule"
         /\ result' = r
         /\ total_tax' = None
    /\ UNCHANGED <<EngineInputs, RuleState>>

\* The regional lookup on its own, for the treatment the classifier returns.
GetRegionalRates ==
    /\ \E c \in determine_calculation_type(scenario, db, amount) :
         /\ c.ok
         /\ op' = "get_regional_rates"
         /\ result' = get_regional_rates(scenario, c.val, db)
         /\ total_tax' = None
    /\ UNCHANGED <<EngineInputs, RuleState>>

\* TaxDatabase::get_rate, called as get_regional_rates calls it for the
\* destination region.
GetRate ==
    /\ op' = "get_rate"
    /\ result' = get_rate(db, scenario.destination_region.country,
                          scenario.destination_region.region, scenario.vat_rate)
    /\ total_tax' = None
    /\ UNCHANGED <<EngineInputs, RuleState>>

Next ==
    \/ DetermineCalculationType
    \/ GetRates
    \/ CalculateTax
    \/ CalculateTaxDecimal
    \/ DetermineRule
    \/ GetRegionalRates
    \/ GetRate

\* No call made yet, and no TaxRuleConfig method under evaluation.
NoCall == op = "" /\ result = None /\ total_tax = None

NoRule == rule = None /\ rule_args = None /\ rule_op = "" /\ rule_ret = None

-----------------------------------------------------------------------------
(* Spec: the reference database under the scenarios of the tests and       *)
(* their neighbours                                                        *)

RefSources ==
    {Region("US", Some("US-CA")), Region("US", Some("US-WA")),
     Region("CA", Some("CA-BC")), Region("CA", Some("CA-QC")),
     Region("DE", None), Region("TH", None)}

RefDestinations ==
    {Region("US", Some("US-WA")), Region("US", Some("US-OR")),
     Region("CA", Some("CA-BC")), Region("CA", Some("CA-QC")),
     Region("CA", Some("CA-NS")), Region("DE", None), Region("FR", None),
     Region("ZZ", None)}

RefOverrides ==
    {None, Some(NoAgreement), Some(UseAgreement("EU")), Some(UseAgreement("XX"))}

RefVatRates == {None, Some("Reduced"), Some("SuperReduced")}

RefAmounts == {RatInt(100), RatInt(100000), Rat(-21, 10)}

Init ==
    /\ db = RefDatabase
    /\ \E src \in RefSources, dst \in RefDestinations, tt \in TransactionType,
          ovr \in RefOverrides, vat \in RefVatRates,
          digital \in BOOLEAN, resale \in BOOLEAN, ignore \in BOOLEAN :
         scenario = Scenario(src, dst, tt, ovr, digital, resale, ignore, vat)
    /\ amount \in RefAmounts
    /\ NoCall
    /\ NoRule

Spec == Init /\ [][Next]_vars

-----------------------------------------------------------------------------
(* SpecRule: the methods of TaxRuleConfig on configs and arguments drawn   *)
(* from bounded sets                                                       *)

MaxThreshold == 2

Thresholds == 0 .. MaxThreshold

OptThresholds == {None} \cup {Some(t) : t \in Thresholds}

\* `amount as u32` values on both sides of every threshold.
U32Amounts == 0 .. (MaxThreshold + 1)

RuleDefaults == {"ThresholdBased", "Destination", "ReverseCharge"}

BelowOptions == {None, Some("Origin"), Some("ZeroRated"), Some("None")}

AboveOptions == {None, Some("Destination"), Some("Exempt")}

\* The general triple over all its values, the digital triple absent or fixed.
RuleConfigsGeneral ==
    {RuleConfig(t, b, a, th, d[1], d[2], d[3], None) :
       t \in RuleDefaults, b \in BelowOptions, a \in AboveOptions,
       th \in OptThresholds,
       d \in {<<None, None, None>>,
              <<Some("Exempt"), Some("ReverseCharge"), Some(1)>>}}

\* The digital triple over all its values, the general triple absent or fixed.
RuleConfigsDigital ==
    {RuleConfig(t, g[1], g[2], g[3], b, a, th, None) :
       t \in RuleDefaults, b \in BelowOptions, a \in AboveOptions,
       th \in OptThresholds,
       g \in {<<None, None, None>>,
              <<Some("Exempt"), Some("ReverseCharge"), Some(1)>>}}

RuleConfigsResale ==
    {RuleConfig(t, None, None, None, None, None, None, r) :
       t \in RuleDefaults, r \in {None, Some(TRUE), Some(FALSE)}}

RuleConfigs == RuleConfigsGeneral \cup RuleConfigsDigital \cup RuleConfigsResale

RuleArgs ==
    [amount : U32Amounts, is_digital_product_or_service : BOOLEAN,
     has_resale_certificate : BOOLEAN, ignore_threshold : BOOLEAN]

EngineState == <<db, scenario, amount, op, result, total_tax>>

ByThreshold ==
    /\ rule_op' = "by_threshold"
    /\ rule_ret' = by_threshold(rule, rule_args.amount, rule_args.ignore_threshold)
    /\ UNCHANGED <<rule, rule_args, EngineState>>

ByDigitalProductThreshold ==
    /\ rule_op' = "by_digital_product_threshold"
    /\ rule_ret' = by_digital_product_threshold(rule, rule_args.amount,
                                                rule_args.ignore_threshold)
    /\ UNCHANGED <<rule, rule_args, EngineState>>

ByThresholdOrDigitalProductThreshold ==
    /\ rule_op' = "by_threshold_or_digital_product_threshold"
    /\ rule_ret' = by_threshold_or_digital_product_threshold(
                     rule, rule_args.amount,
                     rule_args.is_digital_product_or_service,
                     rule_args.ignore_threshold)
    /\ UNCHANGED <<rule, rule_args, EngineState>>

IsReseller ==
    /\ rule_op' = "is_reseller"
    /\ rule_ret' = is_reseller(rule, rule_args.has_resale_certificate)
    /\ UNCHANGED <<rule, rule_args, EngineState>>

NextRule ==
    \/ ByThreshold
    \/ ByDigitalProductThreshold
    \/ ByThresholdOrDigitalProductThreshold
    \/ IsReseller

InitRule ==
    /\ rule \in RuleConfigs
    /\ rule_args \in RuleArgs
    /\ rule_op = ""
    /\ rule_ret = None
    /\ db = None
    /\ scenario = None
    /\ amount = None
    /\ NoCall

SpecRule == InitRule /\ [][NextRule]_vars

-----------------------------------------------------------------------------
(* Claims about TaxRuleConfig (SpecRule)                                   *)

\* The general triple of a config is active: all three fields are present.
GeneralActive(cfg) ==
    /\ cfg.below_threshold # None
    /\ cfg.above_threshold # None
    /\ cfg.threshold # None

\* The digital triple of a config is active.
DigitalActive(cfg) ==
    /\ cfg.below_threshold_digital_products # None
    /\ cfg.above_threshold_digital_products # None
    /\ cfg.threshold_digital_products # None

\* C2: with ignore_threshold = false an active triple gives the
\* below-threshold treatment to an amount under the threshold and the
\* above-threshold treatment to an amount at or over it; an inactive triple
\* gives the default treatment to every amount.  by_threshold reads the
\* general triple, by_digital_product_threshold the digital one.
C2_ThresholdRule ==
    /\ rule_op = "by_threshold" =>
         /\ GeneralActive(rule) /\ ~rule_args.ignore_threshold
              /\ rule_args.amount < rule.threshold[1]
              => rule_ret = rule.below_threshold[1]
         /\ GeneralActive(rule) /\ ~rule_args.ignore_threshold
              /\ rule_args.amount >= rule.threshold[1]
              => rule_ret = rule.above_threshold[1]
         /\ ~GeneralActive(rule) => rule_ret = rule.type
    /\ rule_op = "by_digital_product_threshold" =>
         /\ DigitalActive(rule) /\ ~rule_args.ignore_threshold
              /\ rule_args.amount < rule.threshold_digital_products[1]
              => rule_ret = rule.below_threshold_digital_products[1]
         /\ DigitalActive(rule) /\ ~rule_args.ignore_threshold
              /\ rule_args.amount >= rule.threshold_digital_products[1]
              => rule_ret = rule.above_threshold_digital_products[1]
         /\ ~DigitalActive(rule) => rule_ret = rule.type

\* C2 witness: an amount equal to an active threshold is treated as above,
\* where above, below and default all differ.
C2_Witness ==
    /\ rule_op = "by_threshold"
    /\ GeneralActive(rule)
    /\ ~rule_args.ignore_threshold
    /\ rule_args.amount = rule.threshold[1]
    /\ rule_ret = rule.above_threshold[1]
    /\ rule_ret # rule.below_threshold[1]
    /\ rule_ret # rule.type

\* C3 as stated: with ignore_threshold = true every threshold evaluation
\* returns the config's default treatment, active triple or not.
C3_IgnoreGivesDefault ==
    (/\ rule_op \in {"by_threshold", "by_digital_product_threshold",
                     "by_threshold_or_digital_product_threshold"}
     /\ rule_args.ignore_threshold)
    => rule_ret = rule.type

\* C3 amended: with ignore_threshold = true the evaluation returns the
\* above-threshold treatment of the triple it reads when that triple is
\* active, for every amount, and the default treatment only when the triple
\* is inactive.
C3_IgnoreGivesAbove ==
    rule_args.ignore_threshold =>
      /\ rule_op = "by_threshold" =>
           rule_ret = IF GeneralActive(rule)
                      THEN rule.above_threshold[1] ELSE rule.type
      /\ rule_op = "by_digital_product_threshold" =>
           rule_ret = IF DigitalActive(rule)
                      THEN rule.above_threshold_digital_products[1]
                      ELSE rule.type
      /\ rule_op = "by_threshold_or_digital_product_threshold" =>
           rule_ret = IF rule_args.is_digital_product_or_service
                      THEN IF DigitalActive(rule)
                           THEN rule.above_threshold_digital_products[1]
                           ELSE rule.type
                      ELSE IF GeneralActive(rule)
                           THEN rule.above_threshold[1] ELSE rule.type

\* C3 witness: ignore_threshold = true on an amount under an active
\* threshold returns the above-threshold treatment, which is not the default.
C3_Witness ==
    /\ rule_op = "by_threshold"
    /\ rule_args.ignore_threshold
    /\ GeneralActive(rule)
    /\ rule_args.amount < rule.threshold[1]
    /\ rule_ret = rule.above_threshold[1]
    /\ rule_ret # rule.type

-----------------------------------------------------------------------------
(* Claims about the aggregator (Spec)                                      *)

\* What one component adds to a running total.
Delta(component, amt, total) ==
    IF component.compound
    THEN RatMul(component.rate, RatAdd(amt, total))
    ELSE RatMul(component.rate, amt)

\* The left-to-right fold of a component list: 0 for the empty list, and
\* for a list ending in c the fold of the list before c plus what c adds.
RECURSIVE FoldTotal(_, _)
FoldTotal(rates, amt) ==
    IF rates = <<>> THEN RatInt(0)
    ELSE LET before == FoldTotal(SubSeq(rates, 1, Len(rates) - 1), amt)
         IN  RatAdd(before, Delta(rates[Len(rates)], amt, before))

\* The aggregation calls.
Aggregations == {"calculate_tax", "calculate_tax_decimal"}

\* C1: the unrounded total of calculate_tax and calculate_tax_decimal is the
\* left-to-right fold of the component list get_rates returns; for a list
\* [r1 non-compound, r2 compound] it is amount*r1 + (amount + amount*r1)*r2.
\* calculate_tax_decimal returns that total as it is.
C1_FoldTotal ==
    (op \in Aggregations /\ result.ok) =>
      \E rates \in get_rates(scenario, amount, db) :
        /\ rates.ok
        /\ total_tax = Some(FoldTotal(rates.val, amount))
        /\ op = "calculate_tax_decimal" => result.val = FoldTotal(rates.val, amount)
        /\ (/\ Len(rates.val) = 2
            /\ ~rates.val[1].compound
            /\ rates.val[2].compound)
           => total_tax =
                Some(RatAdd(RatMul(amount, rates.val[1].rate),
                            RatMul(RatAdd(amount, RatMul(amount, rates.val[1].rate)),
                                   rates.val[2].rate)))

\* C1 witness: 100000 sold within British Columbia, GST 5% then PST 7%
\* compounding, totals 12350.
C1_Witness ==
    /\ op = "calculate_tax"
    /\ amount = RatInt(100000)
    /\ scenario.destination_region = Region("CA", Some("CA-BC"))
    /\ get_rates(scenario, amount, db) =
         {Ok(<<TaxRate(Pct(5), GST, FALSE), TaxRate(Pct(7), PST, TRUE)>>)}
    /\ total_tax = Some(RatInt(12350))
    /\ result = Ok(RatInt(12350))

-----------------------------------------------------------------------------
(* No agreement in force                                                   *)

\* The agreements of the store that apply to the scenario's pair of countries
\* when no override is set: the FederalState agreement keyed by the common
\* country, or every CustomsUnion agreement that has both as members.
ApplicableAgreements ==
    LET src == scenario.source_region.country
        dst == scenario.destination_region.country
        agr == db.trade_agreements
    IN  IF src = dst
        THEN {agr[id] : id \in {i \in DOMAIN agr :
                                  i = src /\ agr[i].type = "FederalState"}}
        ELSE {agr[id] : id \in {i \in DOMAIN agr :
                                  /\ agr[i].type = "CustomsUnion"
                                  /\ src \in agr[i].members
                                  /\ dst \in agr[i].members}}

NoAgreementResolved ==
    \/ scenario.trade_agreement_override = Some(NoAgreement)
    \/ /\ scenario.trade_agreement_override = None
       /\ ApplicableAgreements = {}

\* C10: when the override is NoAgreement (whatever the store holds), or there
\* is no override and no agreement applies, the resolver yields none and
\* determine_calculation_type returns Origin if the source and destination
\* countries are equal and ZeroRated if they differ, whatever the amount,
\* the transaction type and the other flags.
C10_NoAgreementDefault ==
    (op = "determine_calculation_type" /\ NoAgreementResolved) =>
      /\ determine_rule(scenario, db) = {Ok(None)}
      /\ result = Ok(IF scenario.source_region.country
                        = scenario.destination_region.country
                     THEN "Origin" ELSE "ZeroRated")

\* A B2B sale from Germany to France with the NoAgreement override: the
\* stored customs union has both as members, yet the sale is zero-rated.
C10_Witness ==
    /\ op = "determine_calculation_type"
    /\ scenario.trade_agreement_override = Some(NoAgreement)
    /\ scenario.source_region = Region("DE", None)
    /\ scenario.destination_region = Region("FR", None)
    /\ scenario.transaction_type = "B2B"
    /\ ApplicableAgreements # {}
    /\ result = Ok("ZeroRated")

-----------------------------------------------------------------------------
(* Federal agreements: the stores, routes and amounts of SpecFederal       *)

MaxFedThreshold == 1

FedThresholds == 0 .. MaxFedThreshold

\* Amounts in steps of one half, from below zero to above every threshold.
FedAmounts == {Rat(n, 2) : n \in -1 .. (2 * MaxFedThreshold + 1)}

\* internal_b2c: absent, or a default with every shape of the general triple.
FedB2cConfigs ==
    {None} \cup
    {Some(RuleConfig(t, b, a, th, None, None, None, None)) :
       t \in {"ThresholdBased", "Origin"},
       b \in {None, Some("Origin"), Some("ZeroRated")},
       a \in {None, Some("Destination")},
       th \in {None} \cup {Some(n) : n \in FedThresholds}}

\* internal_b2b: absent, or a default with the triple absent or active and
\* every value of requires_resale_certificate.
FedB2bConfigs ==
    {None} \cup
    {Some(RuleConfig(t, g[1], g[2], g[3], None, None, None, r)) :
       t \in {"ThresholdBased", "Origin"},
       g \in {<<None, None, None>>} \cup
             {<<Some("Origin"), Some("Destination"), Some(n)>> :
                n \in FedThresholds},
       r \in {None, Some(TRUE), Some(FALSE)}}

\* A store whose two federal agreements carry the given configs.
FedDatabase(b2b, b2c) ==
    TaxDatabase(RefCountries,
        ("US" :> TradeAgreement("FederalState", {"US"}, TaxRules(b2b, b2c)))
     @@ ("CA" :> TradeAgreement("FederalState", {"CA"}, TaxRules(b2b, b2c))))

CanadianDestinations ==
    {Region("CA", None)} \cup
    {Region("CA", Some(p)) :
       p \in {"CA-BC", "CA-AB", "CA-QC", "CA-NS", "CA-NB", "CA-NL", "CA-ON",
              "CA-PE"}}

\* <<source, destination, override>>: domestic sales, which the resolver
\* puts under the country's federal agreement, and sales put under a
\* federal agreement by UseAgreement.
FedRoutes ==
    {<<Region("US", Some("US-CA")), d, None>> :
       d \in {Region("US", Some("US-WA")), Region("US", Some("US-CA"))}}
    \cup
    {<<src, d, None>> :
       src \in {Region("CA", Some("CA-BC")), Region("CA", Some("CA-NS"))},
       d \in CanadianDestinations}
    \cup
    {<<Region("DE", None), Region("DE", None), Some(UseAgreement("US"))>>,
     <<Region("DE", None), Region("CA", Some("CA-QC")), Some(UseAgreement("US"))>>,
     <<Region("US", Some("US-CA")), Region("CA", Some("CA-NS")),
       Some(UseAgreement("CA"))>>,
     <<Region("US", Some("US-CA")), Region("FR", None), Some(UseAgreement("US"))>>,
     <<Region("US", Some("US-CA")), Region("ZZ", None), Some(UseAgreement("US"))>>}

\* B2C sales over every internal_b2c config.
InitFederalB2c ==
    /\ \E b2c \in FedB2cConfigs :
         db = FedDatabase(Some(PlainRule("Destination")), b2c)
    /\ \E r \in FedRoutes, resale \in BOOLEAN, ignore \in BOOLEAN :
         scenario = Scenario(r[1], r[2], "B2C", r[3], FALSE, resale, ignore, None)
    /\ amount \in FedAmounts

\* B2B sales over every internal_b2b config.
InitFederalB2b ==
    /\ \E b2b \in FedB2bConfigs :
         db = FedDatabase(b2b, Some(PlainRule("Destination")))
    /\ \E r \in FedRoutes, resale \in BOOLEAN, ignore \in BOOLEAN :
         scenario = Scenario(r[1], r[2], "B2B", r[3], FALSE, resale, ignore, None)
    /\ amount \in FedAmounts

\* The reference store on the same routes.
InitFederalRef ==
    /\ db = RefDatabase
    /\ \E r \in FedRoutes, tt \in TransactionType,
          resale \in BOOLEAN, ignore \in BOOLEAN :
         scenario = Scenario(r[1], r[2], tt, r[3], FALSE, resale, ignore, None)
    /\ amount \in RefAmounts

InitFederal ==
    /\ InitFederalB2c \/ InitFederalB2b \/ InitFederalRef
    /\ NoCall
    /\ NoRule

SpecFederal == InitFederal /\ [][Next]_vars

-----------------------------------------------------------------------------
(* Federal agreements: what the scenario is under                          *)

\* The agreements the scenario is under: the one an override names, none
\* under NoAgreement, the applicable ones without an override.
AgreementsInForce ==
    LET ovr == scenario.trade_agreement_override
    IN  IF ovr = None THEN ApplicableAgreements
        ELSE IF unwrap(ovr) = NoAgreement THEN {}
        ELSE {db.trade_agreements[i] :
                i \in {unwrap(ovr).id} \cap DOMAIN db.trade_agreements}

UnderFederal ==
    /\ AgreementsInForce # {}
    /\ \A a \in AgreementsInForce : a.type = "FederalState"

FedAgreement == CHOOSE a \in AgreementsInForce : TRUE

\* The destination is one of the five HST provinces or Quebec.
HstOrQuebec ==
    scenario.destination_region \in
      {Region("CA", Some(p)) :
         p \in {"CA-NS", "CA-NB", "CA-NL", "CA-ON", "CA-PE", "CA-QC"}}

\* The config the transaction type selects.
SelectedConfig ==
    IF scenario.transaction_type = "B2B"
    THEN FedAgreement.tax_rules.internal_b2b
    ELSE FedAgreement.tax_rules.internal_b2c

\* The threshold rule on the general triple: below-treatment for an amount
\* under the threshold unless ignore_threshold is set, above-treatment
\* otherwise, the default when the triple is inactive.
GeneralRule(cfg, amt, ignore) ==
    IF GeneralActive(cfg)
    THEN IF amt < unwrap(cfg.threshold) /\ ~ignore
         THEN unwrap(cfg.below_threshold)
         ELSE unwrap(cfg.above_threshold)
    ELSE cfg.type

\* The amounts of the specification that are at or above a threshold.
AmountsAtOrAbove(threshold) ==
    {a \in FedAmounts \cup RefAmounts : ~RatLt(a, RatInt(threshold))}

DestinationRates ==
    map_err_from(get_rate(db, scenario.destination_region.country,
                          scenario.destination_region.region,
                          scenario.vat_rate))

-----------------------------------------------------------------------------
(* Federal agreements: ignore_threshold                                    *)

\* C4: under a federal agreement, with a destination that is neither an HST
\* province nor Quebec, an amount below the selected config's threshold with
\* ignore_threshold set gets the treatment and the component list that every
\* amount at or above the threshold gets; where the above-threshold treatment
\* is Destination and no resale certificate is presented these are the rates
\* of the destination region (on the reference store 100 into CA-BC is taxed
\* 12.35 and 100 from US-CA into US-WA is taxed 6.5).
C4_IgnoreLikeAbove ==
    (/\ op \in {"determine_calculation_type", "get_rates", "calculate_tax"}
     /\ UnderFederal
     /\ ~HstOrQuebec
     /\ scenario.ignore_threshold
     /\ SelectedConfig # None
     /\ unwrap(SelectedConfig).threshold # None
     /\ RatLt(amount, RatInt(unwrap(unwrap(SelectedConfig).threshold))))
    =>
    LET cfg == unwrap(SelectedConfig)
    IN  /\ \A hi \in AmountsAtOrAbove(unwrap(cfg.threshold)), ig \in BOOLEAN :
             LET above == [scenario EXCEPT !.ignore_threshold = ig]
             IN  /\ op = "determine_calculation_type" =>
                      determine_calculation_type(above, db, hi) = {result}
                 /\ op = "get_rates" => get_rates(above, hi, db) = {result}
        /\ (/\ op = "get_rates"
            /\ GeneralActive(cfg)
            /\ cfg.above_threshold = Some("Destination")
            /\ ~scenario.has_resale_certificate)
           => result = DestinationRates
        /\ (/\ op = "calculate_tax"
            /\ db = RefDatabase
            /\ scenario.transaction_type = "B2C"
            /\ amount = RatInt(100))
           =>
           /\ (/\ scenario.source_region = Region("CA", Some("CA-BC"))
               /\ scenario.destination_region = Region("CA", Some("CA-BC")))
              => result = Ok(Rat(1235, 100))
           /\ (/\ scenario.source_region = Region("US", Some("US-CA"))
               /\ scenario.destination_region = Region("US", Some("US-WA")))
              => result = Ok(Rat(65, 10))

\* 100 sold B2C within British Columbia on the reference store with
\* ignore_threshold set: GST 5% and compound PST 7%.
C4_Witness ==
    /\ op = "get_rates"
    /\ db = RefDatabase
    /\ scenario.transaction_type = "B2C"
    /\ scenario.ignore_threshold
    /\ scenario.source_region = Region("CA", Some("CA-BC"))
    /\ scenario.destination_region = Region("CA", Some("CA-BC"))
    /\ amount = RatInt(100)
    /\ result = Ok(<<TaxRate(Pct(5), GST, FALSE), TaxRate(Pct(7), PST, TRUE)>>)
    /\ calculate_tax(scenario, amount, db)
         = {[ret |-> Ok(Rat(1235, 100)), total |-> Some(Rat(1235, 100))]}

-----------------------------------------------------------------------------
(* Federal agreements: B2C                                                 *)

FederalB2c ==
    /\ UnderFederal
    /\ scenario.transaction_type = "B2C"
    /\ ~HstOrQuebec

\* C6: under a federal agreement, B2C, destination neither an HST province
\* nor Quebec, determine_calculation_type returns the threshold rule of
\* internal_b2c: the below-treatment when the triple is active,
\* ignore_threshold is false and the amount is under the threshold, the
\* above-treatment when the triple is active and the amount is at or above
\* it, the default when the triple is inactive; Destination when
\* internal_b2c is absent.
C6_B2cThresholdRule ==
    (op = "determine_calculation_type" /\ FederalB2c) =>
      LET b2c == FedAgreement.tax_rules.internal_b2c
          cfg == unwrap(b2c)
      IN  IF b2c = None THEN result = Ok("Destination")
          ELSE IF ~GeneralActive(cfg) THEN result = Ok(cfg.type)
          ELSE IF ~RatLt(amount, RatInt(unwrap(cfg.threshold)))
               THEN result = Ok(unwrap(cfg.above_threshold))
               ELSE ~scenario.ignore_threshold =>
                      result = Ok(unwrap(cfg.below_threshold))

\* What calculation.rs:149-160 does in the case of C6: under a federal
\* agreement, B2C, destination neither an HST province nor Quebec,
\* determine_calculation_type returns Destination when internal_b2c is
\* absent; ZeroRated when ignore_threshold is false and the
\* amount is below internal_b2c's threshold, an absent threshold counting as
\* u32::MAX; otherwise the above-treatment when the triple is active and the
\* default when it is inactive.
C6_B2cZeroRatedBelow ==
    (op = "determine_calculation_type" /\ FederalB2c) =>
      LET b2c == FedAgreement.tax_rules.internal_b2c
          cfg == unwrap(b2c)
      IN  result =
            Ok(IF b2c = None THEN "Destination"
               ELSE IF /\ ~scenario.ignore_threshold
                       /\ \/ cfg.threshold = None
                          \/ RatLt(amount, RatInt(unwrap(cfg.threshold)))
                    THEN "ZeroRated"
                    ELSE IF GeneralActive(cfg)
                         THEN unwrap(cfg.above_threshold)
                         ELSE cfg.type)

\* An amount under the threshold of an active triple whose below-treatment
\* is Origin, ignore_threshold unset: the treatment is ZeroRated.
C6_Witness ==
    /\ op = "determine_calculation_type"
    /\ FederalB2c
    /\ ~scenario.ignore_threshold
    /\ FedAgreement.tax_rules.internal_b2c # None
    /\ LET cfg == unwrap(FedAgreement.tax_rules.internal_b2c)
       IN  /\ GeneralActive(cfg)
           /\ cfg.below_threshold = Some("Origin")
           /\ RatLt(amount, RatInt(unwrap(cfg.threshold)))
           /\ ~RatLt(amount, RatInt(0))
    /\ result = Ok("ZeroRated")

BelowB2cThreshold ==
    /\ FederalB2c
    /\ ~scenario.ignore_threshold
    /\ FedAgreement.tax_rules.internal_b2c # None
    /\ unwrap(FedAgreement.tax_rules.internal_b2c).threshold # None
    /\ RatLt(amount,
             RatInt(unwrap(unwrap(FedAgreement.tax_rules.internal_b2c).threshold)))

\* C7 as stated: under a federal agreement, B2C, ignore_threshold false, an
\* amount strictly below the internal_b2c threshold and a destination that
\* is neither an HST province nor Quebec, get_rates returns the empty list
\* and calculate_tax returns 0.
C7_BelowThresholdNoComponents ==
    BelowB2cThreshold =>
      /\ op = "get_rates" => result = Ok(<<>>)
      /\ op = "calculate_tax" => result = Ok(RatInt(0))

\* C7: in that case calculate_tax returns 0 and get_rates returns the empty
\* list when the destination country is in the store and is not a VAT
\* country; for a VAT destination get_rates returns the single component
\* VAT(Zero) at rate 0, and for a destination country that is not in the
\* store both fail with CountryNotFound.
C7_BelowThresholdNoTax ==
    BelowB2cThreshold =>
      LET dst == scenario.destination_region.country
      IN  IF dst \notin DOMAIN db.countries
          THEN op \in {"get_rates", "calculate_tax"} =>
                 result = Err(ProcessingError_DatabaseError(CountryNotFound(dst)))
          ELSE /\ op = "calculate_tax" => result = Ok(RatInt(0))
               /\ op = "get_rates" =>
                    result = Ok(IF db.countries[dst].tax_type = "Vat"
                                THEN <<TaxRate(RatInt(0), VAT("Zero"), FALSE)>>
                                ELSE <<>>)

\* 100 sold B2C from California to Washington on the reference store: under
\* the threshold, no component.
C7_Witness ==
    /\ op = "get_rates"
    /\ db = RefDatabase
    /\ BelowB2cThreshold
    /\ scenario.source_region = Region("US", Some("US-CA"))
    /\ scenario.destination_region = Region("US", Some("US-WA"))
    /\ amount = RatInt(100)
    /\ result = Ok(<<>>)
    /\ calculate_tax(scenario, amount, db)
         = {[ret |-> Ok(RatInt(0)), total |-> Some(RatInt(0))]}

-----------------------------------------------------------------------------
(* Federal agreements: B2B                                                 *)

\* C8: under a federal agreement, B2B, destination neither an HST province
\* nor Quebec: Destination when internal_b2b is absent; ZeroRated, whatever
\* the amount and ignore_threshold, when internal_b2b requires a resale
\* certificate and the scenario has one; otherwise the threshold rule of
\* internal_b2b on its general triple, applied to the amount as a u32.
C8_FederalB2b ==
    (/\ op = "determine_calculation_type"
     /\ UnderFederal
     /\ scenario.transaction_type = "B2B"
     /\ ~HstOrQuebec)
    =>
    LET b2b == FedAgreement.tax_rules.internal_b2b
        cfg == unwrap(b2b)
    IN  result =
          Ok(IF b2b = None THEN "Destination"
             ELSE IF /\ cfg.requires_resale_certificate = Some(TRUE)
                     /\ scenario.has_resale_certificate
                  THEN "ZeroRated"
                  ELSE GeneralRule(cfg, AsU32(amount), scenario.ignore_threshold))

\* A reseller's purchase at or above the threshold of an active triple: the
\* threshold rule would give Destination, the treatment is ZeroRated.
C8_Witness ==
    /\ op = "determine_calculation_type"
    /\ UnderFederal
    /\ scenario.transaction_type = "B2B"
    /\ ~HstOrQuebec
    /\ scenario.has_resale_certificate
    /\ FedAgreement.tax_rules.internal_b2b # None
    /\ LET cfg == unwrap(FedAgreement.tax_rules.internal_b2b)
       IN  /\ cfg.requires_resale_certificate = Some(TRUE)
           /\ GeneralActive(cfg)
           /\ GeneralRule(cfg, AsU32(amount), scenario.ignore_threshold)
                = "Destination"
    /\ result = Ok("ZeroRated")

-----------------------------------------------------------------------------
(* Federal agreements: the HST provinces and Quebec                        *)

\* C9: under a federal agreement with destination country CA and subdivision
\* NS, NB, NL, ON, PE or QC, determine_calculation_type returns Destination
\* for every transaction type, amount, ignore_threshold, resale certificate
\* and source region; a B2C sale into Nova Scotia yields exactly one
\* component, the province's HST.
C9_HstOrQuebecDestination ==
    (UnderFederal /\ HstOrQuebec) =>
      /\ op = "determine_calculation_type" => result = Ok("Destination")
      /\ (/\ op = "get_rates"
          /\ scenario.transaction_type = "B2C"
          /\ scenario.destination_region = Region("CA", Some("CA-NS")))
         => result = Ok(<<TaxRate(
                unwrap(db.countries["CA"].states)["CA-NS"].standard_rate,
                HST, FALSE)>>)

\* A B2C sale into Nova Scotia under the threshold with ignore_threshold
\* unset, from another province: one HST component.
C9_Witness ==
    /\ op = "get_rates"
    /\ UnderFederal
    /\ scenario.transaction_type = "B2C"
    /\ scenario.source_region = Region("CA", Some("CA-BC"))
    /\ scenario.destination_region = Region("CA", Some("CA-NS"))
    /\ ~scenario.ignore_threshold
    /\ FedAgreement.tax_rules.internal_b2c # None
    /\ LET cfg == unwrap(FedAgreement.tax_rules.internal_b2c)
       IN  /\ GeneralActive(cfg)
           /\ cfg.below_threshold = Some("ZeroRated")
           /\ RatLt(amount, RatInt(unwrap(cfg.threshold)))
    /\ result = Ok(<<TaxRate(Pct(10), HST, FALSE)>>)

-----------------------------------------------------------------------------
(* Customs unions: the stores and routes of SpecCustoms                    *)

\* The shapes of a threshold triple: absent, one field missing, active.
TripleShapes(below, above) ==
    {<<None, None, None>>}
    \cup {<<Some(below), None, Some(n)>> : n \in FedThresholds}
    \cup {<<Some(below), Some(above), Some(n)>> : n \in FedThresholds}

\* A config absent, or a default with every shape of the two triples, whose
\* treatments differ from each other and from the defaults.
CustomsConfigs ==
    {None} \cup
    {Some(RuleConfig(t, g[1], g[2], g[3], d[1], d[2], d[3], None)) :
       t \in {"ThresholdBased", "Exempt"},
       g \in TripleShapes("Origin", "Destination"),
       d \in TripleShapes("ZeroRated", "ReverseCharge")}

CustomsDatabase(b2b, b2c) ==
    TaxDatabase(RefCountries,
        "EU" :> TradeAgreement("CustomsUnion", {"DE", "FR"}, TaxRules(b2b, b2c)))

\* <<source, destination, override>>: sales between members, and sales put
\* under the union by UseAgreement.
CustomsRoutes ==
    {<<Region("DE", None), Region("FR", None), None>>,
     <<Region("FR", None), Region("DE", None), None>>,
     <<Region("DE", None), Region("DE", None), Some(UseAgreement("EU"))>>,
     <<Region("TH", None), Region("US", Some("US-WA")), Some(UseAgreement("EU"))>>}

InitCustoms ==
    /\ \E cfg \in CustomsConfigs :
         \/ db = CustomsDatabase(cfg, Some(PlainRule("Destination")))
         \/ db = CustomsDatabase(Some(PlainRule("ReverseCharge")), cfg)
    /\ \E r \in CustomsRoutes, tt \in TransactionType,
          digital \in BOOLEAN, ignore \in BOOLEAN :
         scenario = Scenario(r[1], r[2], tt, r[3], digital, FALSE, ignore, None)
    /\ amount \in FedAmounts
    /\ NoCall
    /\ NoRule

SpecCustoms == InitCustoms /\ [][Next]_vars

-----------------------------------------------------------------------------
(* Customs unions: the choice of triple                                    *)

UnderCustoms ==
    /\ AgreementsInForce # {}
    /\ \A a \in AgreementsInForce : a.type = "CustomsUnion"

CustomsAgreement == CHOOSE a \in AgreementsInForce : TRUE

CustomsConfig ==
    IF scenario.transaction_type = "B2B"
    THEN CustomsAgreement.tax_rules.internal_b2b
    ELSE CustomsAgreement.tax_rules.internal_b2c

\* The threshold rule on the digital triple.
DigitalRule(cfg, amt, ignore) ==
    IF DigitalActive(cfg)
    THEN IF amt < unwrap(cfg.threshold_digital_products) /\ ~ignore
         THEN unwrap(cfg.below_threshold_digital_products)
         ELSE unwrap(cfg.above_threshold_digital_products)
    ELSE cfg.type

\* C5 as stated: under a customs union, for B2B and B2C alike, the selected
\* config is evaluated on the digital triple if and only if
\* is_digital_product_or_service is set and on the general triple otherwise;
\* Destination when the selected config is absent.
C5_TripleByProductFlag ==
    (op = "determine_calculation_type" /\ UnderCustoms) =>
      result =
        Ok(IF CustomsConfig = None THEN "Destination"
           ELSE IF scenario.is_digital_product_or_service
                THEN DigitalRule(unwrap(CustomsConfig), AsU32(amount),
                                 scenario.ignore_threshold)
                ELSE GeneralRule(unwrap(CustomsConfig), AsU32(amount),
                                 scenario.ignore_threshold))

\* C5: under a customs union, internal_b2c is evaluated on the digital
\* triple if and only if is_digital_product_or_service is set and on the
\* general triple otherwise; internal_b2b is evaluated on the general triple
\* whatever the flag; Destination when the selected config is absent.
C5_TripleByProductFlagB2cOnly ==
    (op = "determine_calculation_type" /\ UnderCustoms) =>
      result =
        Ok(IF CustomsConfig = None THEN "Destination"
           ELSE IF /\ scenario.transaction_type = "B2C"
                   /\ scenario.is_digital_product_or_service
                THEN DigitalRule(unwrap(CustomsConfig), AsU32(amount),
                                 scenario.ignore_threshold)
                ELSE GeneralRule(unwrap(CustomsConfig), AsU32(amount),
                                 scenario.ignore_threshold))

\* A digital B2B sale between members whose internal_b2b has both triples
\* active: the treatment is the general triple's, not the digital one's.
C5_Witness ==
    /\ op = "determine_calculation_type"
    /\ UnderCustoms
    /\ scenario.transaction_type = "B2B"
    /\ scenario.is_digital_product_or_service
    /\ CustomsConfig # None
    /\ GeneralActive(unwrap(CustomsConfig))
    /\ DigitalActive(unwrap(CustomsConfig))
    /\ result = Ok(GeneralRule(unwrap(CustomsConfig), AsU32(amount),
                               scenario.ignore_threshold))
    /\ result # Ok(DigitalRule(unwrap(CustomsConfig), AsU32(amount),
                               scenario.ignore_threshold))

-----------------------------------------------------------------------------
(* The resolver: the stores and routes of SpecResolver                     *)

\* The keys of the agreement table: a country code, a union's name, another.
ResolverKeys == <<"DE", "EU", "FR">>

\* The treatment that tells the agreement stored under a key from the others.
ResolverTreatment(key) ==
    CASE key = "DE" -> "Origin"
      [] key = "EU" -> "Destination"
      [] OTHER -> "Exempt"

\* What a key can hold: nothing, or an agreement of either kind whose
\* members are one country or two.
ResolverEntries(key) ==
    {None} \cup
    {Some(TradeAgreement(type, members,
            TaxRules(Some(PlainRule(ResolverTreatment(key))),
                     Some(PlainRule(ResolverTreatment(key)))))) :
       type \in {"FederalState", "CustomsUnion"},
       members \in {{"DE"}, {"DE", "FR"}}}

\* The table holding the entries that are present.
ResolverAgreements(entries) ==
    [key \in {ResolverKeys[i] : i \in {j \in 1 .. 3 : entries[j] # None}} |->
       unwrap(entries[CHOOSE i \in 1 .. 3 : ResolverKeys[i] = key])]

ResolverRegions == {Region("DE", None), Region("FR", None),
                    Region("US", Some("US-WA"))}

ResolverOverrides ==
    {None, Some(NoAgreement), Some(UseAgreement("EU")),
     Some(UseAgreement("DE")), Some(UseAgreement("ZZ"))}

InitResolver ==
    /\ \E e1 \in ResolverEntries("DE"), e2 \in ResolverEntries("EU"),
          e3 \in ResolverEntries("FR") :
         db = TaxDatabase(RefCountries, ResolverAgreements(<<e1, e2, e3>>))
    /\ \E src \in ResolverRegions, dst \in ResolverRegions,
          tt \in TransactionType, ovr \in ResolverOverrides :
         scenario = Scenario(src, dst, tt, ovr, FALSE, FALSE, FALSE, None)
    /\ amount \in {RatInt(100), Rat(-21, 10)}
    /\ NoCall
    /\ NoRule

SpecResolver == InitResolver /\ [][Next]_vars

-----------------------------------------------------------------------------
(* The resolver: the UseAgreement override                                 *)

PublicOperations ==
    {"determine_calculation_type", "get_rates", "calculate_tax",
     "calculate_tax_decimal"}

\* C11: with the override UseAgreement(id), if id is not a key of the
\* agreement table then determine_calculation_type, get_rates, calculate_tax
\* and calculate_tax_decimal return DatabaseError::TradeAgreementNotFound(id)
\* (as a ProcessingError::DatabaseError) for every source, destination,
\* transaction type and amount; if id is a key, the resolver returns the
\* agreement stored under it.
C11_UseAgreement ==
    (/\ scenario.trade_agreement_override # None
     /\ unwrap(scenario.trade_agreement_override).tag = "UseAgreement")
    =>
    LET id == unwrap(scenario.trade_agreement_override).id
    IN  IF id \in DOMAIN db.trade_agreements
        THEN op = "determine_rule" =>
               result = Ok(Some(db.trade_agreements[id]))
        ELSE /\ op \in PublicOperations =>
                  result = Err(ProcessingError_DatabaseError(
                                 TradeAgreementNotFound(id)))
             /\ op = "determine_rule" => result = Err(TradeAgreementNotFound(id))

\* calculate_tax from Germany to France with an override naming an agreement
\* the store does not hold, though a customs union of both is stored.
C11_Witness ==
    /\ op = "calculate_tax"
    /\ scenario.trade_agreement_override = Some(UseAgreement("ZZ"))
    /\ scenario.source_region = Region("DE", None)
    /\ scenario.destination_region = Region("FR", None)
    /\ "ZZ" \notin DOMAIN db.trade_agreements
    /\ \E key \in DOMAIN db.trade_agreements :
         /\ db.trade_agreements[key].type = "CustomsUnion"
         /\ db.trade_agreements[key].members = {"DE", "FR"}
    /\ result = Err(ProcessingError_DatabaseError(TradeAgreementNotFound("ZZ")))

-----------------------------------------------------------------------------
(* The resolver without an override                                        *)

\* C12: with no override and the same source and destination country, the
\* resolver returns the agreement stored under that country code if and only
\* if its kind is FederalState; it returns none if the entry is missing or
\* is a CustomsUnion, also when a customs union has the country as a member.
C12_SameCountryFederalOnly ==
    (/\ op = "determine_rule"
     /\ scenario.trade_agreement_override = None
     /\ scenario.source_region.country = scenario.destination_region.country)
    =>
    LET c == scenario.source_region.country
        agr == db.trade_agreements
    IN  result = Ok(IF c \in DOMAIN agr /\ agr[c].type = "FederalState"
                    THEN Some(agr[c])
                    ELSE None)

\* A sale within Germany where the entry keyed DE is a customs union that has
\* DE as a member: none is resolved.
C12_Witness ==
    /\ op = "determine_rule"
    /\ scenario.trade_agreement_override = None
    /\ scenario.source_region = Region("DE", None)
    /\ scenario.destination_region = Region("DE", None)
    /\ "DE" \in DOMAIN db.trade_agreements
    /\ db.trade_agreements["DE"].type = "CustomsUnion"
    /\ "DE" \in db.trade_agreements["DE"].members
    /\ result = Ok(None)

\* The customs unions of the store that have both countries as members.
UnionsOfBoth ==
    {id \in DOMAIN db.trade_agreements :
       /\ db.trade_agreements[id].type = "CustomsUnion"
       /\ scenario.source_region.country \in db.trade_agreements[id].members
       /\ scenario.destination_region.country \in db.trade_agreements[id].members}

\* C13: with no override and different source and destination countries, the
\* resolver returns an agreement only if it is a CustomsUnion of the store
\* whose members include both countries, and returns none exactly when the
\* store has no such agreement; a FederalState agreement is never returned,
\* whatever its members.
C13_CrossCountryUnionOnly ==
    (/\ op = "determine_rule"
     /\ scenario.trade_agreement_override = None
     /\ scenario.source_region.country # scenario.destination_region.country)
    =>
    /\ result.ok
    /\ result.val = None <=> UnionsOfBoth = {}
    /\ result.val # None =>
         \E id \in UnionsOfBoth : result.val = Some(db.trade_agreements[id])

\* A sale from Germany to France where a FederalState agreement lists both
\* countries and no customs union does: none is resolved.
C13_Witness ==
    /\ op = "determine_rule"
    /\ scenario.trade_agreement_override = None
    /\ scenario.source_region = Region("DE", None)
    /\ scenario.destination_region = Region("FR", None)
    /\ \E id \in DOMAIN db.trade_agreements :
         /\ db.trade_agreements[id].type = "FederalState"
         /\ db.trade_agreements[id].members = {"DE", "FR"}
    /\ UnionsOfBoth = {}
    /\ result = Ok(None)

-----------------------------------------------------------------------------
(* Composition: the stores and routes of SpecTreatment                     *)

\* A store whose agreement "T" classifies every sale as the given treatment.
TreatmentDatabase(treatment) ==
    TaxDatabase(RefCountries,
        "T" :> TradeAgreement("CustomsUnion", {},
                 TaxRules(Some(PlainRule(treatment)),
                          Some(PlainRule(treatment)))))

TreatmentSources ==
    {Region("US", Some("US-CA")), Region("US", Some("US-WA")),
     Region("CA", Some("CA-BC")), Region("DE", None), Region("TH", None)}

TreatmentDestinations ==
    {Region("US", Some("US-WA")), Region("US", Some("US-OR")),
     Region("CA", Some("CA-BC")), Region("CA", Some("CA-NS")),
     Region("CA", None), Region("AU", None), Region("DE", None),
     Region("FR", None), Region("ZZ", None)}

TreatmentVatRates == {None, Some("Reduced"), Some("SuperReduced"), Some("Exempt")}

TreatmentOverrides == {Some(UseAgreement("T")), Some(UseAgreement("ZZ"))}

InitTreatment ==
    /\ \E t \in TaxCalculationType : db = TreatmentDatabase(t)
    /\ \E src \in TreatmentSources, dst \in TreatmentDestinations,
          tt \in TransactionType, ovr \in TreatmentOverrides,
          resale \in BOOLEAN, vat \in TreatmentVatRates :
         scenario = Scenario(src, dst, tt, ovr, FALSE, resale, FALSE, vat)
    /\ amount \in {RatInt(100), Rat(-21, 10)}
    /\ NoCall
    /\ NoRule

SpecTreatment == InitTreatment /\ [][Next]_vars

\* The treatment the classifier returns for the scenario, when it returns one.
Treatments ==
    {c.val : c \in {x \in determine_calculation_type(scenario, db, amount) : x.ok}}

-----------------------------------------------------------------------------
(* Composition: the US resale pre-check                                    *)

UsB2bResale ==
    /\ scenario.source_region.country = "US"
    /\ scenario.transaction_type = "B2B"
    /\ scenario.has_resale_certificate

\* The override names an agreement that the store does not hold.
UnknownAgreementOverride ==
    /\ scenario.trade_agreement_override # None
    /\ unwrap(scenario.trade_agreement_override).tag = "UseAgreement"
    /\ unwrap(scenario.trade_agreement_override).id
         \notin DOMAIN db.trade_agreements

\* C14 as stated: source country US, B2B and a resale certificate give an
\* empty component list from get_rates and 0 from calculate_tax, whatever
\* the treatment, the destination, the amount and every other field.
C14_ResaleAlwaysEmpty ==
    UsB2bResale =>
      /\ op = "get_rates" => result = Ok(<<>>)
      /\ op = "calculate_tax" => result = Ok(RatInt(0))

\* C14: source country US, B2B and a resale certificate give an empty
\* component list from get_rates and 0 from calculate_tax, whatever the
\* treatment, the destination and the amount, unless the override names an
\* agreement that is not in the store: then both fail with
\* TradeAgreementNotFound.
C14_ResaleEmptyOnceClassified ==
    UsB2bResale =>
      IF UnknownAgreementOverride
      THEN op \in {"get_rates", "calculate_tax"} =>
             result = Err(ProcessingError_DatabaseError(TradeAgreementNotFound(
                            unwrap(scenario.trade_agreement_override).id)))
      ELSE /\ op = "get_rates" => result = Ok(<<>>)
           /\ op = "calculate_tax" => result = Ok(RatInt(0))

\* A reseller's purchase from California classified Destination into
\* Washington, whose rate is not zero: no component.
C14_Witness ==
    /\ op = "get_rates"
    /\ UsB2bResale
    /\ Treatments = {"Destination"}
    /\ scenario.source_region = Region("US", Some("US-CA"))
    /\ scenario.destination_region = Region("US", Some("US-WA"))
    /\ DestinationRates # Ok(<<>>)
    /\ result = Ok(<<>>)

-----------------------------------------------------------------------------
(* Composition: VAT destinations                                           *)

DestinationKnown == scenario.destination_region.country \in DOMAIN db.countries

VatDestination ==
    /\ DestinationKnown
    /\ db.countries[scenario.destination_region.country].tax_type = "Vat"

\* The VAT variant that marks a treatment.
Marker(treatment) == IF treatment = "ZeroRated" THEN "Zero" ELSE treatment

\* C15 as stated: for a VAT destination and a treatment ReverseCharge,
\* ZeroRated or Exempt, get_rates returns exactly one component, rate 0,
\* not compound, tagged VAT(ReverseCharge), VAT(Zero) or VAT(Exempt),
\* whatever vat_rate and the source region are; calculate_tax returns 0.
C15_VatMarkerAlways ==
    (VatDestination /\ Treatments \subseteq {"ReverseCharge", "ZeroRated", "Exempt"})
    =>
    \A t \in Treatments :
      /\ op = "get_rates" =>
           result = Ok(<<TaxRate(RatInt(0), VAT(Marker(t)), FALSE)>>)
      /\ op = "calculate_tax" => result = Ok(RatInt(0))

\* C15: the same, except that a B2B sale with a resale certificate from a US
\* source gets an empty component list; calculate_tax returns 0 either way.
C15_VatMarkerUnlessResale ==
    (VatDestination /\ Treatments \subseteq {"ReverseCharge", "ZeroRated", "Exempt"})
    =>
    \A t \in Treatments :
      /\ op = "get_rates" =>
           result = IF UsB2bResale
                    THEN Ok(<<>>)
                    ELSE Ok(<<TaxRate(RatInt(0), VAT(Marker(t)), FALSE)>>)
      /\ op = "calculate_tax" => result = Ok(RatInt(0))

\* An Exempt sale from Germany to France with vat_rate Reduced: the single
\* component is VAT(Exempt) at rate 0, not France's reduced rate.
C15_Witness ==
    /\ op = "get_rates"
    /\ Treatments = {"Exempt"}
    /\ scenario.source_region = Region("DE", None)
    /\ scenario.destination_region = Region("FR", None)
    /\ scenario.vat_rate = Some("Reduced")
    /\ result = Ok(<<TaxRate(RatInt(0), VAT("Exempt"), FALSE)>>)

-----------------------------------------------------------------------------
(* Composition: destinations outside VAT                                   *)

NonVatDestination ==
    /\ DestinationKnown
    /\ db.countries[scenario.destination_region.country].tax_type # "Vat"

\* What get_rates returns for the scenario under the Destination treatment.
AsDestination == rates_with(scenario, Ok("Destination"), db)

SubdivisionsDiffer ==
    scenario.source_region.region # scenario.destination_region.region

\* C16 as stated: for a destination outside VAT, ZeroRated gives an empty
\* component list, and ReverseCharge and Exempt give the components the
\* Destination treatment gives for the same scenario, also when the
\* destination is a US state or Canadian province other than the source
\* subdivision.
C16_FallThroughAsDestination ==
    (op = "get_rates" /\ NonVatDestination) =>
      \A t \in Treatments :
        /\ t = "ZeroRated" => result = Ok(<<>>)
        /\ t \in {"ReverseCharge", "Exempt"} => result = AsDestination

\* C16: for a destination outside VAT, ZeroRated gives an empty component
\* list; ReverseCharge and Exempt give an empty list when the destination
\* country is US or CA and the source and destination subdivisions differ,
\* and otherwise the components the Destination treatment gives for the same
\* scenario.
C16_FallThroughRegional ==
    (op = "get_rates" /\ NonVatDestination) =>
      \A t \in Treatments :
        /\ t = "ZeroRated" => result = Ok(<<>>)
        /\ t \in {"ReverseCharge", "Exempt"} =>
             result = IF /\ scenario.destination_region.country \in {"US", "CA"}
                         /\ SubdivisionsDiffer
                      THEN Ok(<<>>)
                      ELSE AsDestination

\* A ReverseCharge B2C sale from Germany to Australia: the GST that the
\* Destination treatment gives.
C16_Witness ==
    /\ op = "get_rates"
    /\ Treatments = {"ReverseCharge"}
    /\ scenario.transaction_type = "B2C"
    /\ scenario.source_region = Region("DE", None)
    /\ scenario.destination_region = Region("AU", None)
    /\ AsDestination = Ok(<<TaxRate(Pct(10), GST, FALSE)>>)
    /\ result = Ok(<<TaxRate(Pct(10), GST, FALSE)>>)

-----------------------------------------------------------------------------
(* Composition: the regional lookup                                        *)

SourceRates ==
    map_err_from(get_rate(db, scenario.source_region.country,
                          scenario.source_region.region, scenario.vat_rate))

\* The components of Origin and Destination as C17 states them.
RegionalLookup(treatment) ==
    IF treatment = "Origin"
    THEN IF /\ scenario.source_region.country \in {"US", "CA"}
            /\ SubdivisionsDiffer
         THEN Ok(<<>>)
         ELSE SourceRates
    ELSE DestinationRates

\* C17: Origin looks the components up for the source region and Destination
\* for the destination region; when the selected region's country is US or
\* CA and the subdivisions differ, Origin gives an empty list and
\* Destination the destination region's lookup. get_rates returns this
\* lookup once the resale pre-check and the destination country's lookup are
\* passed. An Origin sale from Germany to France carries Germany's 19%.
C17_OriginOrDestinationRegion ==
    \A t \in Treatments \cap {"Origin", "Destination"} :
      /\ op = "get_regional_rates" => result = RegionalLookup(t)
      /\ (op = "get_rates" /\ ~UsB2bResale /\ DestinationKnown) =>
           result = RegionalLookup(t)
      /\ (/\ op = "get_rates"
          /\ t = "Origin"
          /\ scenario.source_region = Region("DE", None)
          /\ scenario.destination_region = Region("FR", None)
          /\ scenario.vat_rate = None)
         => result = Ok(<<TaxRate(Pct(19), VAT("Standard"), FALSE)>>)

\* An Origin B2C sale from Germany to France: one component, Germany's
\* standard rate, where France's is 20%.
C17_Witness ==
    /\ op = "get_rates"
    /\ Treatments = {"Origin"}
    /\ scenario.transaction_type = "B2C"
    /\ scenario.source_region = Region("DE", None)
    /\ scenario.destination_region = Region("FR", None)
    /\ scenario.vat_rate = None
    /\ DestinationRates = Ok(<<TaxRate(Pct(20), VAT("Standard"), FALSE)>>)
    /\ result = Ok(<<TaxRate(Pct(19), VAT("Standard"), FALSE)>>)

-----------------------------------------------------------------------------
(* get_rate: the stores and arguments of SpecRate                          *)

\* The optional rates of a VAT country: all present, one absent, all absent.
VatProfiles ==
    {Country("Vat", Pct(20), f[1], f[2], f[3], st) :
       f \in {<<Some(Pct(10)), Some(Rat(55, 1000)), Some(Rat(21, 1000))>>,
              <<None, Some(Rat(55, 1000)), Some(Rat(21, 1000))>>,
              <<Some(Pct(10)), None, Some(Rat(21, 1000))>>,
              <<Some(Pct(10)), Some(Rat(55, 1000)), None>>,
              <<None, None, None>>},
       st \in {None, Some("S1" :> State(Pct(7), "None"))}}

\* A country of any other kind, without subdivisions or with one subdivision
\* of any kind whose rate is zero or not.
LayeredProfiles ==
    {Country(kind, Pct(5), None, None, None, st) :
       kind \in TaxSystemType \ {"Vat"},
       st \in {None} \cup
              {Some("S1" :> State(rate, k)) :
                 rate \in {RatInt(0), Pct(7)}, k \in TaxSystemType}}

\* A store of one country and no agreement.
RateDatabase(code, profile) ==
    TaxDatabase(code :> profile, [id \in {} |-> None])

\* get_rate(country, region, vat_rate) as the lookup of a domestic sale.
RateScenario(country, region, vat) ==
    Scenario(Region(country, region), Region(country, region), "B2C", None,
             FALSE, FALSE, FALSE, vat)

InitRateVat ==
    \E code \in {"FR", "US"}, profile \in VatProfiles,
       region \in {None, Some("S1")},
       vat \in {None} \cup {Some(v) : v \in VatRate} :
    \E country \in {code, "ZZ"} :
      /\ db = RateDatabase(code, profile)
      /\ scenario = RateScenario(country, region, vat)

InitRateLayered ==
    \E code \in {"CA", "US"}, profile \in LayeredProfiles,
       region \in {None, Some("S1"), Some("S9")},
       vat \in {None, Some("Reduced")} :
    \E country \in {code, "ZZ"} :
      /\ db = RateDatabase(code, profile)
      /\ scenario = RateScenario(country, region, vat)

InitRate ==
    /\ InitRateVat \/ InitRateLayered
    /\ amount = RatInt(100)
    /\ NoCall
    /\ NoRule

SpecRate == InitRate /\ [][Next]_vars

\* The arguments of the get_rate call and the profile it finds.
RateCountryCode == scenario.destination_region.country

RateRegion == scenario.destination_region.region

RateProfile == db.countries[RateCountryCode]

RateCountryKnown == RateCountryCode \in DOMAIN db.countries

\* The subdivision profile of the region argument, if there is one.
RateSubdivision ==
    IF /\ RateRegion # None
       /\ RateProfile.states # None
       /\ unwrap(RateRegion) \in DOMAIN unwrap(RateProfile.states)
    THEN Some(unwrap(RateProfile.states)[unwrap(RateRegion)])
    ELSE None

-----------------------------------------------------------------------------
(* get_rate: VAT countries                                                 *)

\* The variant asked for and the profile field it maps to.
Variant ==
    IF scenario.vat_rate = None THEN "Standard" ELSE unwrap(scenario.vat_rate)

VariantField ==
    CASE Variant = "Standard" -> Some(RateProfile.standard_rate)
      [] Variant = "Reduced" -> RateProfile.reduced_rate
      [] Variant = "ReducedAlt" -> RateProfile.reduced_rate_alt
      [] Variant = "SuperReduced" -> RateProfile.super_reduced_rate
      [] Variant \in {"Zero", "Exempt", "ReverseCharge"} -> Some(RatInt(0))

\* C18: for a VAT country (of a code other than US, which has its own arm)
\* get_rate takes the variant vat_rate gives, Standard when absent, maps
\* Standard, Reduced, ReducedAlt and SuperReduced to their profile fields
\* and Zero, Exempt and ReverseCharge to 0, and returns exactly one
\* component, not compound, tagged VAT(variant), at that rate; when the
\* field is absent it fails with VatRateNotFound naming the variant. It
\* never returns a successful empty list.
C18_VatVariant ==
    (/\ op = "get_rate"
     /\ RateCountryKnown
     /\ RateCountryCode # "US"
     /\ RateProfile.tax_type = "Vat")
    =>
    /\ result = IF VariantField = None
                THEN Err(VatRateNotFound(Variant))
                ELSE Ok(<<TaxRate(unwrap(VariantField), VAT(Variant), FALSE)>>)
    /\ result # Ok(<<>>)

\* The alternative reduced rate asked of a country that defines the reduced
\* and super-reduced rates but not that one.
C18_Witness ==
    /\ op = "get_rate"
    /\ RateCountryKnown
    /\ RateCountryCode = "FR"
    /\ RateProfile.tax_type = "Vat"
    /\ scenario.vat_rate = Some("ReducedAlt")
    /\ RateProfile.reduced_rate # None
    /\ RateProfile.reduced_rate_alt = None
    /\ RateProfile.super_reduced_rate # None
    /\ result = Err(VatRateNotFound("ReducedAlt"))

-----------------------------------------------------------------------------
(* get_rate: layered countries                                             *)

\* C19: for a country of kind Gst, Pst, Hst or Qst (of a code other than
\* US), get_rate with a subdivision whose profile exists dispatches on the
\* subdivision's kind: Hst gives one HST component at the subdivision rate,
\* not compound, and no GST; Qst gives GST at the country rate, not
\* compound, then QST at the subdivision rate, compound; Pst gives GST then
\* PST, compound, likewise; any other kind gives GST alone; with no
\* subdivision given it is GST alone.
C19_LayeredDispatch ==
    (/\ op = "get_rate"
     /\ RateCountryKnown
     /\ RateCountryCode # "US"
     /\ RateProfile.tax_type \in {"Gst", "Pst", "Hst", "Qst"}
     /\ RateRegion = None \/ RateSubdivision # None)
    =>
    LET gst == TaxRate(RateProfile.standard_rate, GST, FALSE)
        sub == unwrap(RateSubdivision)
    IN  result =
          Ok(IF RateRegion = None THEN <<gst>>
             ELSE CASE sub.tax_type = "Hst" ->
                         <<TaxRate(sub.standard_rate, HST, FALSE)>>
                    [] sub.tax_type = "Qst" ->
                         <<gst, TaxRate(sub.standard_rate, QST, TRUE)>>
                    [] sub.tax_type = "Pst" ->
                         <<gst, TaxRate(sub.standard_rate, PST, TRUE)>>
                    [] OTHER -> <<gst>>)

\* An Hst subdivision of a Gst country: HST alone, at the subdivision rate.
C19_Witness ==
    /\ op = "get_rate"
    /\ RateCountryKnown
    /\ RateCountryCode = "CA"
    /\ RateProfile.tax_type = "Gst"
    /\ RateSubdivision = Some(State(Pct(7), "Hst"))
    /\ result = Ok(<<TaxRate(Pct(7), HST, FALSE)>>)

-----------------------------------------------------------------------------
(* get_rate: the US                                                        *)

-----------------------------------------------------------------------------
(* The treatments the classifier hands to its callers                      *)

\* The treatments that are markers of a config, not outcomes.
ReservedTreatments == {"None", "ThresholdBased"}

\* C21: for every store and every scenario a successful
\* determine_calculation_type returns one of Origin, Destination,
\* ReverseCharge, ZeroRated and Exempt, never None or ThresholdBased,
\* whatever treatments the agreement's rule configs carry as their default,
\* below-threshold or above-threshold values.
C21_FiveTreatments ==
    (op = "determine_calculation_type" /\ result.ok) =>
      result.val \in TaxCalculationType \ ReservedTreatments

\* A B2C sale from Germany to France under an agreement whose configs have
\* the default ThresholdBased and no threshold triple: the classifier
\* returns ThresholdBased.
C21_Witness ==
    /\ op = "determine_calculation_type"
    /\ scenario.trade_agreement_override = Some(UseAgreement("T"))
    /\ scenario.source_region = Region("DE", None)
    /\ scenario.destination_region = Region("FR", None)
    /\ scenario.transaction_type = "B2C"
    /\ db.trade_agreements["T"].tax_rules.internal_b2c
         = Some(PlainRule("ThresholdBased"))
    /\ result = Ok("ThresholdBased")

-----------------------------------------------------------------------------
(* The result as a function of scenario, amount and store                  *)

-----------------------------------------------------------------------------
(* Components under Origin and Destination                                 *)

\* The region whose components a treatment asks for.
RelevantRegion(treatment) ==
    IF treatment = "Origin"
    THEN scenario.source_region
    ELSE scenario.destination_region

\* The region is in the US and names no state with a rate above zero.
UsWithoutRate(region) ==
    /\ region.country = "US"
    /\ us_rates(db.countries["US"], region.region) = <<>>

\* C23: when the treatment is Origin or Destination and the kind of the
\* relevant country (the source's for Origin, the destination's for
\* Destination) is not None, a component list returned by get_rates is not
\* empty, with these exceptions only: a US state whose rate is zero (read
\* here as any US region without a rate above zero), a country of kind None,
\* and Origin across differing US or Canadian subdivisions. In particular a
\* country of kind Gst given a subdivision code yields a component. Sales
\* that the US resale pre-check empties are set aside.
C23_ComponentsNotEmpty ==
    (op = "get_rates" /\ result.ok) =>
      \A t \in Treatments \cap {"Origin", "Destination"} :
        LET region == RelevantRegion(t)
        IN  (/\ region.country \in DOMAIN db.countries
             /\ db.countries[region.country].tax_type # "None"
             /\ ~UsWithoutRate(region)
             /\ ~UsB2bResale
             /\ ~(/\ t = "Origin"
                  /\ region.country \in {"US", "CA"}
                  /\ SubdivisionsDiffer))
            => result.val # <<>>

\* A domestic sale in a country of kind Gst with a subdivision code the
\* country has no profile for: no component, where the same country under
\* kind Pst, Hst or Qst gets the GST.
C23_Witness ==
    /\ op = "get_rates"
    /\ Treatments = {"Origin"}
    /\ RateCountryCode = "CA"
    /\ RateCountryKnown
    /\ RateProfile.tax_type = "Gst"
    /\ RateRegion = Some("S9")
    /\ RateSubdivision = None
    /\ handle_gst_rates(RateProfile, RateRegion, <<>>)
         = <<TaxRate(Pct(5), GST, FALSE)>>
    /\ result = Ok(<<>>)

-----------------------------------------------------------------------------
(* The aggregator: the sales and amounts of SpecAggregate                  *)

\* Domestic sales whose components are GST alone, GST with a compounding
\* PST or QST, HST alone, VAT, a state sales tax.
AggRegions ==
    {Region("CA", None), Region("CA", Some("CA-AB")),
     Region("CA", Some("CA-BC")), Region("CA", Some("CA-QC")),
     Region("CA", Some("CA-NS")), Region("DE", None),
     Region("US", Some("US-WA"))}

\* Amounts of either sign, among them amounts whose tax falls half-way
\* between two cents.
AggAmounts ==
    {RatInt(-100), Rat(-3, 2), Rat(-1, 2), RatInt(0), Rat(1, 2), Rat(3, 2),
     RatInt(100)}

\* Under NoAgreement a domestic sale is classified Origin, and its
\* components are those of its region.
InitAggregate ==
    /\ db = RefDatabase
    /\ \E r \in AggRegions, tt \in TransactionType :
         scenario = Scenario(r, r, tt, Some(NoAgreement), FALSE, FALSE, FALSE,
                             None)
    /\ amount \in AggAmounts
    /\ NoCall
    /\ NoRule

SpecAggregate == InitAggregate /\ [][Next]_vars

\* Component lists of positive rates, of the lengths the composer returns;
\* the aggregation loop does not read the tax kind.
AggComponents ==
    {TaxRate(r, GST, c) : r \in {Pct(5), Pct(10)}, c \in BOOLEAN}

AggLists ==
    {<<>>} \cup {<<a>> : a \in AggComponents}
           \cup {<<a, b>> : a \in AggComponents, b \in AggComponents}

\* What the aggregation call of the state returns for a component list.
Aggregated(rates) ==
    IF op = "calculate_tax"
    THEN calculate_tax_with(Ok(rates), amount).ret.val
    ELSE calculate_tax_decimal_with(Ok(rates), amount).ret.val

\* Appending a compounding component to any list does not lower the total.
AppendKeepsTotal ==
    \A rates \in AggLists, c \in {x \in AggComponents : x.compound} :
      ~RatLt(Aggregated(Append(rates, c)), Aggregated(rates))

\* C24 as stated: for every component list with positive rates, appending
\* one more compounding component never decreases the total that
\* calculate_tax and calculate_tax_decimal return, for every amount they
\* accept.
C24_AppendNeverDecreases ==
    op \in Aggregations => AppendKeepsTotal

\* C24: the same for every amount that is not negative.
C24_AppendNeverDecreasesNonNegative ==
    (op \in Aggregations /\ ~RatLt(amount, RatInt(0))) => AppendKeepsTotal

\* 100 sold within British Columbia: the compounding PST after the GST
\* raises the total from 5 to 12.35.
C24_Witness ==
    /\ op = "calculate_tax_decimal"
    /\ amount = RatInt(100)
    /\ scenario.destination_region = Region("CA", Some("CA-BC"))
    /\ get_rates(scenario, amount, db) =
         {Ok(<<TaxRate(Pct(5), GST, FALSE), TaxRate(Pct(7), PST, TRUE)>>)}
    /\ Aggregated(<<TaxRate(Pct(5), GST, FALSE)>>) = RatInt(5)
    /\ result = Ok(Rat(1235, 100))

-----------------------------------------------------------------------------
(* The aggregator: rounding                                                *)

\* The distance of two rationals.
RatDist(a, b) ==
    LET d == RatAdd(a, RatMul(RatInt(-1), b))
    IN  [num |-> Abs(d.num), den |-> d.den]

RatAbs(a) == [num |-> Abs(a.num), den |-> a.den]

\* r is x rounded to 2 fractional digits, ties away from zero: a whole
\* number of cents at most half a cent from x, and the one of larger
\* magnitude when x is half-way between two.
RoundedToCents(r, x) ==
    /\ RatMul(r, RatInt(100)).den = 1
    /\ ~RatLt(Rat(1, 200), RatDist(r, x))
    /\ RatDist(r, x) = Rat(1, 200) => RatLt(RatAbs(x), RatAbs(r))

\* C25: calculate_tax returns the folded total rounded to 2 fractional
\* digits, ties away from zero, for negative totals too; calculate_tax_decimal
\* returns the folded total itself, not rounded; so the two can differ on
\* one scenario (Quebec's GST and QST on 100: 15.47 and 15.47375).
C25_RoundedAndExact ==
    (op \in Aggregations /\ result.ok) =>
      \E rates \in get_rates(scenario, amount, db) :
        /\ rates.ok
        /\ op = "calculate_tax" =>
             RoundedToCents(result.val, FoldTotal(rates.val, amount))
        /\ op = "calculate_tax_decimal" =>
             result.val = FoldTotal(rates.val, amount)
        /\ (/\ scenario.source_region = Region("CA", Some("CA-QC"))
            /\ amount = RatInt(100))
           => result.val = IF op = "calculate_tax"
                           THEN Rat(1547, 100)
                           ELSE Rat(1547375, 100000)

\* Half a unit sold in Alberta at a loss: the GST of -0.025 is returned as
\* -0.03 by calculate_tax, where calculate_tax_decimal returns -0.025.
C25_Witness ==
    /\ op = "calculate_tax"
    /\ amount = Rat(-1, 2)
    /\ scenario.source_region = Region("CA", Some("CA-AB"))
    /\ total_tax = Some(Rat(-25, 1000))
    /\ result = Ok(Rat(-3, 100))
    /\ \A r \in calculate_tax_decimal(scenario, amount, db) :
         r.ret = Ok(Rat(-25, 1000))

-----------------------------------------------------------------------------
(* The amount the thresholds are compared with                             *)

\* The amount as `amount as u32` leaves it: the fraction dropped, a negative
\* amount 0.
Truncated(amt) == AsF64(AsU32(amt))

\* C26: every threshold comparison of the classifier is made on the amount
\* truncated to an unsigned integer: for every scenario, agreement and
\* amount, determine_calculation_type returns for the amount what it returns
\* for the truncated amount, on every branch, federal B2C included.
C26_TruncatedAmount ==
    op = "determine_calculation_type" =>
      determine_calculation_type(scenario, db, Truncated(amount)) = {result}

\* A B2C sale under a federal agreement whose threshold is 0, the amount
\* -0.5: ZeroRated, where the truncated amount 0 gets the above-threshold
\* treatment Destination.
C26_Witness ==
    /\ op = "determine_calculation_type"
    /\ FederalB2c
    /\ ~scenario.ignore_threshold
    /\ amount = Rat(-1, 2)
    /\ FedAgreement.tax_rules.internal_b2c # None
    /\ LET cfg == unwrap(FedAgreement.tax_rules.internal_b2c)
       IN  /\ GeneralActive(cfg)
           /\ cfg.threshold = Some(0)
           /\ cfg.above_threshold = Some("Destination")
    /\ determine_calculation_type(scenario, db, Truncated(amount))
         = {Ok("Destination")}
    /\ result = Ok("ZeroRated")

-----------------------------------------------------------------------------
(* Composition: a destination country that is not in the store             *)

DestinationNotFound ==
    Err(ProcessingError_DatabaseError(
          CountryNotFound(scenario.destination_region.country)))

\* C27 as stated: when the destination country is absent from the store's
\* country table, get_rates fails with CountryNotFound carrying the
\* destination country code whenever the US B2B resale pre-check does not
\* apply, for every treatment, Origin and ZeroRated included, and raises no
\* error when the pre-check applies.
C27_UnknownDestinationFails ==
    (op = "get_rates" /\ ~DestinationKnown) =>
      IF UsB2bResale THEN result.ok ELSE result = DestinationNotFound

\* C27: the same once the scenario is classified; when the override names
\* an agreement that is not in the store, get_rates fails with
\* TradeAgreementNotFound, whether the pre-check applies or not.
C27_UnknownDestinationFailsOnceClassified ==
    (op = "get_rates" /\ ~DestinationKnown) =>
      IF UnknownAgreementOverride
      THEN result = Err(ProcessingError_DatabaseError(TradeAgreementNotFound(
                          unwrap(scenario.trade_agreement_override).id)))
      ELSE IF UsB2bResale THEN result = Ok(<<>>)
           ELSE result = DestinationNotFound

\* An Origin sale from Germany to a country the store does not hold: the
\* components would be Germany's, and get_rates fails.
C27_Witness ==
    /\ op = "get_rates"
    /\ Treatments = {"Origin"}
    /\ scenario.source_region = Region("DE", None)
    /\ scenario.destination_region = Region("ZZ", None)
    /\ scenario.vat_rate = None
    /\ SourceRates = Ok(<<TaxRate(Pct(19), VAT("Standard"), FALSE)>>)
    /\ result = Err(ProcessingError_DatabaseError(CountryNotFound("ZZ")))

-----------------------------------------------------------------------------
(* Composition: a reserved treatment                                       *)

\* C28: when the classifier hands on the reserved treatment None or
\* ThresholdBased, get_rates, once the resale pre-check and the destination
\* country's lookup are passed, returns the regional components of the
\* destination region, except that for a US or Canadian destination whose
\* subdivision differs from the source's it returns the empty list; it
\* fails only where that lookup fails, never because of the reserved value.
C28_ReservedAsRegional ==
    (op = "get_rates" /\ ~UsB2bResale /\ DestinationKnown) =>
      \A t \in Treatments \cap ReservedTreatments :
        /\ result = IF /\ scenario.destination_region.country \in {"US", "CA"}
                       /\ SubdivisionsDiffer
                    THEN Ok(<<>>)
                    ELSE DestinationRates
        /\ ~result.ok => result = DestinationRates

\* A B2C sale from California to Washington under an agreement whose config
\* default is None: no component, where Washington's lookup gives its sales
\* tax.
C28_Witness ==
    /\ op = "get_rates"
    /\ Treatments = {"None"}
    /\ scenario.transaction_type = "B2C"
    /\ scenario.source_region = Region("US", Some("US-CA"))
    /\ scenario.destination_region = Region("US", Some("US-WA"))
    /\ DestinationRates = Ok(<<TaxRate(Rat(65, 1000), StateSalesTax, FALSE)>>)
    /\ result = Ok(<<>>)

-----------------------------------------------------------------------------
(* get_rate: the four layered kinds                                        *)

\* The store with the kind of the country looked up replaced.
WithCountryKind(kind) ==
    [db EXCEPT !.countries[RateCountryCode].tax_type = kind]

\* C29: the layered lookup is the same for the four layered kinds: for every
\* subdivision table, every region argument (absent, with a profile, without
\* one) and every rate, get_rate on a country of kind Gst returns the
\* component list it returns on the same country of kind Pst, Hst or Qst.
C29_LayeredKindsAgree ==
    (op = "get_rate" /\ RateCountryKnown /\ RateProfile.tax_type = "Gst") =>
      \A kind \in {"Pst", "Hst", "Qst"} :
        get_rate(WithCountryKind(kind), RateCountryCode, RateRegion,
                 scenario.vat_rate) = result

\* A region without a profile: nothing for the country of kind Gst, the GST
\* for the same country of kind Pst.
C29_Witness ==
    /\ op = "get_rate"
    /\ RateCountryKnown
    /\ RateCountryCode = "CA"
    /\ RateProfile.tax_type = "Gst"
    /\ RateProfile.states # None
    /\ RateRegion = Some("S9")
    /\ get_rate(WithCountryKind("Pst"), RateCountryCode, RateRegion,
                scenario.vat_rate) = Ok(<<TaxRate(Pct(5), GST, FALSE)>>)
    /\ result = Ok(<<>>)

-----------------------------------------------------------------------------
(* The order of the components the composer returns                        *)

\* C30: every component list get_rates returns has at most two components,
\* its first component is not compounding, and a compounding component is
\* the second one, directly after a GST component that is not compounding;
\* so the aggregator meets no compounding component on an empty running
\* total by position and none that is followed by a non-compounding one.
C30_CompoundSecondAfterGst ==
    (op = "get_rates" /\ result.ok) =>
      LET rates == result.val
      IN  /\ Len(rates) <= 2
          /\ rates # <<>> => ~rates[1].compound
          /\ \A i \in 1 .. Len(rates) :
               rates[i].compound =>
                 /\ i = 2
                 /\ rates[1].tax_type = GST
                 /\ ~rates[1].compound

\* A domestic sale in a Pst subdivision: the GST, then the compounding PST.
C30_Witness ==
    /\ op = "get_rates"
    /\ RateCountryCode = "CA"
    /\ RateCountryKnown
    /\ RateSubdivision = Some(State(Pct(7), "Pst"))
    /\ result = Ok(<<TaxRate(Pct(5), GST, FALSE), TaxRate(Pct(7), PST, TRUE)>>)

====
